---------------------------- MODULE Spec2Model ----------------------------
(***************************************************************************)
(* Model of the e-mail cancellation analyzer (src/dsrc/email_analyzer.py). *)
(*                                                                         *)
(* Texts are TLA+ strings, handled character by character with Len, SubSeq *)
(* and \o.  Positions in match records are 0-based as in Python.  Floats   *)
(* are binary64 values with the rounding of every operation.  Time is      *)
(* counted in hours since a Monday 00:00.                                  *)
(*                                                                         *)
(* Style: helpers on numbers and strings are functions f[x \in S], and a   *)
(* value used more than once is bound by Only({... : v \in {e}}) or by a   *)
(* quantifier rather than by LET, so that it is evaluated once.            *)
(***************************************************************************)
EXTENDS Integers, Sequences, FiniteSets, TLC

(***************************************************************************)
(* Bounds of the model.                                                    *)
(***************************************************************************)
MaxBatch == 2
MaxTicks == 1
MaxTrendBatch == 3

\* the element of a singleton set
Only(S) == CHOOSE v \in S : TRUE

\* F applied to the value of e
Bind(e, F(_)) == Only({F(v) : v \in {e}})

\* the sequence xs, evaluated
Tuple(xs) == xs \o <<>>

Max(a, b) == IF a >= b THEN a ELSE b
Min(a, b) == IF a <= b THEN a ELSE b
BoolInt(b) == IF b THEN 1 ELSE 0

(***************************************************************************)
(* Python floats: IEEE 754 binary64 values >= 0, every operation rounded   *)
(* to the nearest value, a tie going to the even mantissa.  A float is     *)
(* [m, e] for m * 2^e, with m = 0 or 2^52 <= m < 2^53; m is a natural      *)
(* number written in limbs base 2^14, the lowest first, since it does not  *)
(* fit the integers of the model checker.                                  *)
(***************************************************************************)
Base == 2 ^ 14
Bigs == Seq(Nat)
Limb(x, k) == IF k >= 1 /\ k <= Len(x) THEN x[k] ELSE 0

\* x without its leading zero limbs
BTrim[x \in Bigs] ==
    IF Len(x) > 0 /\ x[Len(x)] = 0 THEN BTrim[SubSeq(x, 1, Len(x) - 1)] ELSE x

\* the number whose limbs, before carrying, are the columns cols
Carry[cols \in Bigs] ==
    LET A[k \in 0..Len(cols)] ==
            IF k = 0 THEN [d |-> <<>>, c |-> 0]
            ELSE Bind(A[k - 1],
                 LAMBDA p :
                     Bind(cols[k] + p.c,
                     LAMBDA s : [d |-> Append(p.d, s % Base), c |-> s \div Base]))
    IN  BTrim[A[Len(cols)].d]

BAdd[x \in Bigs, y \in Bigs] ==
    Carry[Tuple([k \in 1..(Max(Len(x), Len(y)) + 1) |-> Limb(x, k) + Limb(y, k)])]

\* x - y for x >= y
BSub[x \in Bigs, y \in Bigs] ==
    LET A[k \in 0..Len(x)] ==
            IF k = 0 THEN [d |-> <<>>, b |-> 0]
            ELSE Bind(A[k - 1],
                 LAMBDA p :
                     Bind(x[k] - Limb(y, k) - p.b,
                     LAMBDA t : IF t < 0 THEN [d |-> Append(p.d, t + Base), b |-> 1]
                                ELSE [d |-> Append(p.d, t), b |-> 0]))
    IN  BTrim[A[Len(x)].d]

BMul[x \in Bigs, y \in Bigs] ==
    Carry[Tuple([k \in 1..(Len(x) + Len(y) + 2) |->
                   LET S[i \in 0..Len(x)] ==
                           IF i = 0 THEN 0 ELSE S[i - 1] + x[i] * Limb(y, k + 1 - i)
                   IN  S[Len(x)]])]

\* -1, 0, 1 as x <, =, > y; x and y without leading zero limbs
BCmp[x \in Bigs, y \in Bigs] ==
    IF Len(x) # Len(y) THEN (IF Len(x) < Len(y) THEN -1 ELSE 1)
    ELSE LET C[k \in 0..Len(x)] ==
                 IF k = 0 THEN 0
                 ELSE IF x[k] # y[k] THEN (IF x[k] < y[k] THEN -1 ELSE 1)
                 ELSE C[k - 1]
         IN  C[Len(x)]

\* x * 2^s
BShl[x \in Bigs, s \in Nat] ==
    BMul[[k \in 1..(s \div 14) |-> 0] \o x, <<2 ^ (s % 14)>>]

\* x \div 2^s
BShr[x \in Bigs, s \in Nat] ==
    Bind(SubSeq(x, (s \div 14) + 1, Len(x)),
    LAMBDA hi :
        BTrim[Tuple([k \in 1..Len(hi) |->
                       (hi[k] \div (2 ^ (s % 14)))
                       + (Limb(hi, k + 1) % (2 ^ (s % 14))) * (2 ^ (14 - (s % 14)))])])

IntBits[n \in Nat] == IF n = 0 THEN 0 ELSE 1 + IntBits[n \div 2]

\* the number of bits of x, without leading zero limbs
BBitLen[x \in Bigs] ==
    IF Len(x) = 0 THEN 0 ELSE (Len(x) - 1) * 14 + IntBits[x[Len(x)]]

\* the natural number n < 2^28 in limbs
BInt[n \in Nat] == BTrim[<<n % Base, n \div Base>>]

Floats == [m : Bigs, e : Int]
Zero == [m |-> <<>>, e |-> 0]

\* n / 2^s rounded to an integer, a tie going to the even one
BRoundShr[n \in Bigs, s \in Nat] ==
    IF s = 0 THEN n
    ELSE Bind(BShr[n, s],
         LAMBDA q :
             Bind(BCmp[BSub[n, BShl[q, s]], BShl[<<1>>, s - 1]],
             LAMBDA c : IF c > 0 \/ (c = 0 /\ Limb(q, 1) % 2 = 1) THEN BAdd[q, <<1>>] ELSE q))

\* the float nearest to n * 2^e
Round[n \in Bigs, e \in Int] ==
    Bind(BBitLen[n],
    LAMBDA len :
        IF len = 0 THEN Zero
        ELSE IF len <= 53 THEN [m |-> BShl[n, 53 - len], e |-> e - (53 - len)]
        ELSE Bind(BRoundShr[n, len - 53],
             LAMBDA q : IF BBitLen[q] > 53 THEN [m |-> BShr[q, 1], e |-> e + (len - 53) + 1]
                        ELSE [m |-> q, e |-> e + (len - 53)]))

FAdd[a \in Floats, b \in Floats] ==
    IF a = Zero THEN b
    ELSE IF b = Zero THEN a
    ELSE Bind(Min(a.e, b.e),
         LAMBDA e : Round[BAdd[BShl[a.m, a.e - e], BShl[b.m, b.e - e]], e])

FMul[a \in Floats, b \in Floats] ==
    IF a = Zero \/ b = Zero THEN Zero ELSE Round[BMul[a.m, b.m], a.e + b.e]

\* one step of the long division by y: the next bit of the quotient
DivStep(p, y) ==
    IF BCmp[p.r, y] >= 0
    THEN [q |-> BAdd[BShl[p.q, 1], <<1>>], r |-> BShl[BSub[p.r, y], 1]]
    ELSE [q |-> BShl[p.q, 1], r |-> BShl[p.r, 1]]

DivStates == [q : Bigs, r : Bigs]

\* n steps of it
DivSteps[p \in DivStates, y \in Bigs, n \in Nat] ==
    IF n = 0 THEN p
    ELSE IF n = 1 THEN DivStep(p, y)
    ELSE DivSteps[DivSteps[p, y, n \div 2], y, n - (n \div 2)]

\* 57 steps on the mantissas: the quotient of x * 2^56 by y, doubled, plus
\* 1 if the division leaves a remainder
Quotient[x \in Bigs, y \in Bigs] ==
    Bind(DivSteps[[q |-> <<>>, r |-> x], y, 57],
    LAMBDA p : IF p.r = <<>> THEN BShl[p.q, 1] ELSE BAdd[BShl[p.q, 1], <<1>>])

\* a / b for b > 0
FDiv[a \in Floats, b \in Floats] ==
    IF a = Zero THEN Zero ELSE Round[Quotient[a.m, b.m], a.e - b.e - 57]

\* the float nearest to n / d, which is the value of a decimal literal
Float[n \in Nat, d \in Nat] == FDiv[Round[BInt[n], 0], Round[BInt[d], 0]]

FLt[a \in Floats, b \in Floats] ==
    IF b = Zero THEN FALSE
    ELSE IF a = Zero THEN TRUE
    ELSE a.e < b.e \/ (a.e = b.e /\ BCmp[a.m, b.m] < 0)
FLeq[a \in Floats, b \in Floats] == a = b \/ FLt[a, b]
FGeq[a \in Floats, b \in Floats] == FLeq[b, a]
FMin[a \in Floats, b \in Floats] == IF FLeq[a, b] THEN a ELSE b
One == Float[1, 1]

(***************************************************************************)
(* Characters and strings.                                                 *)
(***************************************************************************)
Char(s, i) == SubSeq(s, i, i)
CharsOf(s) == {Char(s, i) : i \in 1..Len(s)}

LowerLetters == "abcdefghijklmnopqrstuvwxyzäöü"
UpperLetters == "ABCDEFGHIJKLMNOPQRSTUVWXYZÄÖÜ"
DigitChars == CharsOf("0123456789")
\* [A-Z] under re.IGNORECASE
LetterChars == CharsOf("abcdefghijklmnopqrstuvwxyz") \cup CharsOf("ABCDEFGHIJKLMNOPQRSTUVWXYZ")
\* \w of a Python str pattern: letters (umlauts too), digits, underscore
WordChars == CharsOf(LowerLetters) \cup CharsOf(UpperLetters) \cup DigitChars \cup CharsOf("_ß")
\* \s
SpaceChars == {" ", "\n", "\t"}

\* A field that holds a str or None: <<s>> or <<>>
None == <<>>
Some(s) == <<s>>
IsNone(x) == x = None
Val(x) == x[1]
\* the field as an f-string renders it
Str(x) == IF IsNone(x) THEN "None" ELSE Val(x)

LowerChar[c \in STRING] ==
    IF \E i \in 1..Len(UpperLetters) : Char(UpperLetters, i) = c
    THEN Char(LowerLetters, CHOOSE i \in 1..Len(UpperLetters) : Char(UpperLetters, i) = c)
    ELSE c

\* str.lower()
Lower[s \in STRING] ==
    IF Len(s) <= 1 THEN LowerChar[s]
    ELSE Lower[SubSeq(s, 1, Len(s) \div 2)] \o Lower[SubSeq(s, (Len(s) \div 2) + 1, Len(s))]

\* str.strip()
LStrip[s \in STRING] ==
    IF Len(s) > 0 /\ Char(s, 1) \in SpaceChars THEN LStrip[SubSeq(s, 2, Len(s))] ELSE s
RStrip[s \in STRING] ==
    IF Len(s) > 0 /\ Char(s, Len(s)) \in SpaceChars THEN RStrip[SubSeq(s, 1, Len(s) - 1)] ELSE s
Strip[s \in STRING] == RStrip[LStrip[s]]

\* `sub` occurs in `s` at 1-based index i
OccursAt(s, sub, i) ==
    /\ i >= 1
    /\ i + Len(sub) - 1 <= Len(s)
    /\ SubSeq(s, i, i + Len(sub) - 1) = sub

\* sub in s
Contains[s \in STRING, sub \in STRING] ==
    \E i \in 1..(Len(s) - Len(sub) + 1) : OccursAt(s, sub, i)

\* xs[0] + xs[1] + ... for a list of lists
Concat(xss) ==
    Only({ LET C[k \in 0..Len(ss)] == IF k = 0 THEN <<>> ELSE C[k - 1] \o ss[k]
           IN  C[Len(ss)] : ss \in {Tuple(xss)} })

\* sep.join(xs)
Join(xs, sep) ==
    Only({ LET J[k \in 0..Len(ss)] ==
                  IF k = 0 THEN ""
                  ELSE IF k = 1 THEN ss[1]
                  ELSE J[k - 1] \o sep \o ss[k]
           IN  J[Len(ss)] : ss \in {Tuple(xs)} })

Range(xs) == {xs[i] : i \in 1..Len(xs)}

\* list(set(xs)): the distinct elements, in an order fixed by the set
ListOfSet(S) ==
    Only({ LET L[T \in SUBSET U] ==
                  IF T = {} THEN <<>>
                  ELSE Only({ <<x>> \o L[T \ {x}] : x \in {CHOOSE y \in T : TRUE} })
           IN  L[U] : U \in {S} })

(***************************************************************************)
(* Exceptions: an operation that may raise yields Raised or Return(v).     *)
(***************************************************************************)
Raised == [raised |-> TRUE]
Return(v) == [raised |-> FALSE, value |-> v]
IsRaised(x) == x.raised

(***************************************************************************)
(* Regular-expression matching (Python re), as far as the patterns of the  *)
(* analyzer need it.  A candidate is [start, end, group]: 0-based start,   *)
(* exclusive end, and the text of capture group 1.                         *)
(***************************************************************************)
WordAt(s, i) == i >= 1 /\ i <= Len(s) /\ Char(s, i) \in WordChars

\* \b before the character at 1-based index p
Boundary(s, p) == WordAt(s, p - 1) # WordAt(s, p)

\* the indices p of s with a \b before the character at p
Boundaries[s \in STRING] == {p \in 1..(Len(s) + 1) : Boundary(s, p)}

\* what finditer/findall keep of the candidate matches at all positions:
\* the leftmost one, then the leftmost one starting at or after its end, ...
FindAll(candidates) ==
    Only({ LET Scan[from \in Nat] ==
                  IF \A c \in cands : c.start < from THEN <<>>
                  ELSE Only({ <<c>> \o Scan[c.end] :
                              c \in {d \in cands :
                                       /\ d.start >= from
                                       /\ \A e \in cands : e.start >= from => d.start <= e.start} })
           IN  Scan[0] : cands \in {candidates} })

\* rf'\b{re.escape(keyword)}\b' at 1-based index i; bounds = Boundaries[text]
KeywordAt(text, bounds, keyword, i) ==
    /\ i \in bounds
    /\ i + Len(keyword) \in bounds
    /\ OccursAt(text, keyword, i)

\* pattern.finditer(text); bounds = Boundaries[text], computed once per text
KeywordFindIter(text, bounds, keyword) ==
    FindAll({[start |-> i - 1, end |-> i - 1 + Len(keyword), group |-> keyword] :
             i \in {j \in bounds : KeywordAt(text, bounds, keyword, j)}})

\* [:\s]
SepChars == SpaceChars \cup {":"}
\* [A-Z0-9-] under re.IGNORECASE
TokenChars == LetterChars \cup DigitChars \cup {"-"}
\* {10,}
MinTokenLen == 10

\* length of the longest run of separators / of token characters in s from
\* the 1-based index i
SepRun[s \in STRING, i \in Nat] ==
    IF i <= Len(s) /\ Char(s, i) \in SepChars THEN 1 + SepRun[s, i + 1] ELSE 0
TokenRun[s \in STRING, i \in Nat] ==
    IF i <= Len(s) /\ Char(s, i) \in TokenChars THEN 1 + TokenRun[s, i + 1] ELSE 0

\* \d{n} at index i
DigitsAt(s, i, n) == \A k \in 0..(n - 1) : i + k <= Len(s) /\ Char(s, i + k) \in DigitChars

\* (\d{3}-\d{7}-\d{7})
AmazonOrderAt(s, i) ==
    /\ DigitsAt(s, i, 3)
    /\ OccursAt(s, "-", i + 3)
    /\ DigitsAt(s, i + 4, 7)
    /\ OccursAt(s, "-", i + 11)
    /\ DigitsAt(s, i + 12, 7)

AmazonOrderLen == 19

AmazonOrderFindAll[s \in STRING] ==
    FindAll({[start |-> i - 1, end |-> i - 1 + AmazonOrderLen,
              group |-> SubSeq(s, i, i + AmazonOrderLen - 1)] :
             i \in {j \in 1..Len(s) : AmazonOrderAt(s, j)}})

\* label[:\s]*([A-Z0-9-]{10,}) under re.IGNORECASE: the candidate at the
\* 1-based index i, t being the index of the token.  The two classes are
\* disjoint, so the greedy runs never backtrack.
LabeledCandidate(s, i, t) ==
    [start |-> i - 1, end |-> t - 1 + TokenRun[s, t], group |-> SubSeq(s, t, t + TokenRun[s, t] - 1)]

LabeledFindAll[s \in STRING, label \in STRING] ==
    FindAll({LabeledCandidate(s, it[1], it[2]) :
             it \in {<<i, i + Len(label) + SepRun[s, i + Len(label)]>> :
                     i \in {j \in 1..(Len(s) - Len(label) + 1) :
                              /\ LowerChar[Char(s, j)] = Char(label, 1)
                              /\ Lower[SubSeq(s, j, j + Len(label) - 1)] = label
                              /\ TokenRun[s, j + Len(label) + SepRun[s, j + Len(label)]] >= MinTokenLen}}})

\* a.*b on a lowered text: b starts at or after the end of a, with no line
\* break in between ('.' does not match '\n')
DotStarSearch[s \in STRING, a \in STRING, b \in STRING] ==
    \E i \in 1..Len(s) :
        /\ OccursAt(s, a, i)
        /\ \E j \in (i + Len(a))..Len(s) :
              /\ OccursAt(s, b, j)
              /\ \A k \in (i + Len(a))..(j - 1) : Char(s, k) # "\n"

(***************************************************************************)
(* Dates.  raw_date is a datetime [kind |-> "datetime", t, aware], None    *)
(* or a value of another type; t is in hours.                              *)
(***************************************************************************)
HoursPerDay == 24

Datetime(t, aware) == [kind |-> "datetime", t |-> t, aware |-> aware]
NoDate == [kind |-> "none"]
OtherDate == [kind |-> "other"]

\* _normalize_datetime: the naive datetime, or now for None and other types
NormalizeDatetime(dt, now) ==
    IF dt.kind = "none" THEN Datetime(now, FALSE)
    ELSE IF dt.kind = "datetime" THEN
        IF dt.aware THEN Datetime(dt.t, FALSE) ELSE dt
    ELSE Datetime(now, FALSE)

\* timedelta.days of a - b (floor)
DeltaDays(a, b) == (a.t - b.t) \div HoursPerDay
\* strftime('%Y-%m-%d'): the calendar day
DayKey(d) == d.t \div HoursPerDay
\* strftime('%A')
WeekdayNames == <<"Monday", "Tuesday", "Wednesday", "Thursday", "Friday", "Saturday", "Sunday">>
Weekday(d) == WeekdayNames[(DayKey(d) % Len(WeekdayNames)) + 1]
HourOf(d) == d.t % HoursPerDay

(***************************************************************************)
(* The keyword catalog (EmailConfig) and the analyzer object.              *)
(***************************************************************************)
CANCELLATION_KEYWORDS_DE ==
    << "stornierung", "stornieren", "storno",
       "rückgabe", "zurückgeben", "zurücksenden",
       "erstattung", "rückerstattung",
       "bestellung stornieren", "bestellung abbrechen",
       "rücktritt", "widerruf", "kündigung",
       "annullierung", "rückabwicklung" >>

CANCELLATION_KEYWORDS_EN ==
    << "cancel", "cancellation", "cancelled",
       "refund", "return", "returning",
       "order cancellation", "cancel order",
       "withdrawal", "revocation",
       "void", "annul", "nullify" >>

AMAZON_KEYWORDS ==
    << "amazon", "bestellung", "order",
       "bestellnummer", "order number",
       "artikel", "product", "item" >>

HIGH_PRIORITY_KEYWORDS ==
    << "dringend", "urgent", "sofort", "immediately",
       "wichtig", "important", "asap" >>

\* the categories in the insertion order of the dict _load_keywords returns
Categories == <<"primary_de", "primary_en", "amazon", "priority">>

LoadKeywords ==
    [primary_de |-> CANCELLATION_KEYWORDS_DE,
     primary_en |-> CANCELLATION_KEYWORDS_EN,
     amazon |-> AMAZON_KEYWORDS,
     priority |-> HIGH_PRIORITY_KEYWORDS]

\* a compiled pattern: a literal a, a.*b, the hyphenated order number, or
\* a label a followed by a captured token
Pattern(kind, a, b) == [kind |-> kind, a |-> a, b |-> b]

\* _compile_amazon_patterns; amazon-.*@amazon\.(de|com) is one entry per
\* alternative
CompileAmazonPatterns ==
    << Pattern("literal", "amazon.de", ""),
       Pattern("literal", "amazon.com", ""),
       Pattern("dotstar", "amazon-", "@amazon.de"),
       Pattern("dotstar", "amazon-", "@amazon.com"),
       Pattern("dotstar", "bestellung", "amazon"),
       Pattern("dotstar", "amazon", "bestellung"),
       Pattern("dotstar", "order", "amazon"),
       Pattern("dotstar", "amazon", "order") >>

\* _compile_order_patterns
CompileOrderPatterns ==
    << Pattern("order", "", ""),
       Pattern("order", "", ""),
       Pattern("labeled", "bestellnummer", ""),
       Pattern("labeled", "order number", ""),
       Pattern("labeled", "auftragsnummer", ""),
       Pattern("labeled", "ref", "") >>

\* EmailAnalyzer.__init__
EmailAnalyzerInit ==
    [cancellation_keywords |-> LoadKeywords,
     amazon_patterns |-> CompileAmazonPatterns,
     order_number_patterns |-> CompileOrderPatterns]

(***************************************************************************)
(* The message records the batches are drawn from.                         *)
(***************************************************************************)
Now0 == 730
TickHours == 12

Recent == Datetime(Now0 - 30, FALSE)
Old == Datetime(Now0 - 500, FALSE)
\* dated 400 hours after the first reading of the clock
Future == Datetime(Now0 + 400, FALSE)
\* 7 days and 12 hours before the first reading of the clock
WeekAndHalfDay == Datetime(Now0 - 180, FALSE)

Filler16 == "lorem ipsum sit "
Filler64 == Filler16 \o Filler16 \o Filler16 \o Filler16
Filler512 == Filler64 \o Filler64 \o Filler64 \o Filler64 \o Filler64 \o Filler64 \o Filler64 \o Filler64

EmailData(id, subject, sender, body, raw_date) ==
    [id |-> id, subject |-> subject, sender |-> sender, date |-> "date " \o id,
     body |-> body, raw_date |-> raw_date, message_id |-> "<" \o id \o ">"]

MessagePool ==
    << EmailData("1", Some("Kunde möchte Bestellung 123-4567890-1234567 stornieren."),
                 Some("customer-service@vendor.example"), Some("Bitte um Bearbeitung."), Recent),
       EmailData("2", Some("Rechnung Ref: AB12345678CD"),
                 Some("shop@myamazon.de"), Some("Guten Tag"), Recent),
       EmailData("3", Some("Info"),
                 Some("bob@example.org"), Some("Your order " \o Filler512), Old),
       EmailData("4", Some("Hi"),
                 Some("bob@example.org"), Some("urgent: item, order, product, artikel " \o Filler512), Old),
       EmailData("5", Some("Item"),
                 Some("noreply"), Some(Filler512), Old),
       EmailData("6", Some("Hi"),
                 Some("bob@example.org"), Some("Refund " \o Filler512), Old),
       EmailData("7", Some("Cancel order"),
                 Some("alice@example.org"), Some("please"), NoDate),
       EmailData("8", Some("Hello"),
                 Some("alice@example.org"), None, Recent),
       EmailData("9", None,
                 Some("alice@example.org"), Some("please cancel"), Recent),
       EmailData("10", Some("Hello"),
                 None, Some("nothing"), Recent),
       EmailData("11", Some("Storno"),
                 Some("Support@Amazon.de"),
                 Some("Bestellnummer: ABCDEFGHIJKL\nref 123-4567890-1234567 und 123-4567890-1234567"),
                 Datetime(Now0 - 200, TRUE)),
       EmailData("12", Some("Order"),
                 Some("bob@example.org"), Some("ok"), Old),
       EmailData("13", Some("Hi"),
                 Some("bob@example.org"),
                 Some("urgent refund refund refund refund refund item order " \o Filler512), Old),
       EmailData("14", Some("Hi"),
                 Some("bob@example.org"), Some("Refund order " \o Filler512), Future),
       EmailData("15", Some("Hi"),
                 Some("bob@example.org"), Some("Return " \o Filler512), WeekAndHalfDay),
       EmailData("16", Some("Hi"),
                 Some("bob@example.org"), Some("Refund return " \o Filler512), Old),
       EmailData("17", Some("Hi"),
                 Some("bob@example.org"),
                 Some("order order order order order " \o Filler512), Old) >>

\* a reference to a record is its index in the pool
MessageRefs == 1..Len(MessagePool)
\* the records of the first twelve lines: well-formed and malformed ones
MixedRefs == 1..12
\* well-formed records chosen for their matches, bonuses and dates
ScoringRefs == {1, 2, 3, 4, 11, 13, 14, 15, 16, 17}
\* three cancellations, of two calendar days
TrendRefs == {1, 6, 12}
Deref(ref) == MessagePool[ref]

(***************************************************************************)
(* Per-message analysis.                                                   *)
(***************************************************************************)
BaseConfidence(category) ==
    CASE category = "primary_de" -> Float[8, 10]
      [] category = "primary_en" -> Float[8, 10]
      [] category = "amazon" -> Float[3, 10]
      [] category = "priority" -> Float[9, 10]
      [] OTHER -> Float[5, 10]

SubjectBonus == Float[2, 10]
ShortBodyBonus == Float[1, 10]
SenderBonus == Float[1, 10]
ShortBodyLimit == 500
SenderPatterns == {"customer", "service", "support"}

\* a variant without the final min(1.0, ...)
CalculateMatchConfidenceUncapped(keyword, category, position, email_data) ==
    IF IsNone(email_data.subject) \/ IsNone(email_data.body) \/ IsNone(email_data.sender)
    THEN Raised
    ELSE Bind(IF position < Len(Val(email_data.subject))
              THEN FAdd[BaseConfidence(category), SubjectBonus]
              ELSE BaseConfidence(category),
         LAMBDA c1 :
         Bind(IF Len(Val(email_data.body)) < ShortBodyLimit THEN FAdd[c1, ShortBodyBonus] ELSE c1,
         LAMBDA c2 :
         Bind(IF \E p \in SenderPatterns : Contains[Lower[Val(email_data.sender)], p]
              THEN FAdd[c2, SenderBonus] ELSE c2,
         LAMBDA c3 : Return(c3))))

\* _calculate_match_confidence; len() and .lower() of None raise
CalculateMatchConfidence(keyword, category, position, email_data) ==
    IF IsNone(email_data.subject) \/ IsNone(email_data.body) \/ IsNone(email_data.sender)
    THEN Raised
    ELSE Bind(IF position < Len(Val(email_data.subject))
              THEN FAdd[BaseConfidence(category), SubjectBonus]
              ELSE BaseConfidence(category),
         LAMBDA c1 :
         Bind(IF Len(Val(email_data.body)) < ShortBodyLimit THEN FAdd[c1, ShortBodyBonus] ELSE c1,
         LAMBDA c2 :
         Bind(IF \E p \in SenderPatterns : Contains[Lower[Val(email_data.sender)], p]
              THEN FAdd[c2, SenderBonus] ELSE c2,
         LAMBDA c3 : Return(FMin[One, c3]))))

ContextWidth == 50

\* text[a:b] for 0 <= a <= b <= len(text)
Slice(s, a, b) == SubSeq(s, a + 1, b)

\* the CancellationMatch of one regex match m of `keyword`, or Raised
MakeMatch(text, keyword, category, m, email_data) ==
    Bind(CalculateMatchConfidence(keyword, category, m.start, email_data),
    LAMBDA confidence :
        IF IsRaised(confidence) THEN Raised
        ELSE Return([keyword |-> keyword,
                     context |-> Strip[Slice(text, Max(0, m.start - ContextWidth),
                                             Min(Len(text), m.end + ContextWidth))],
                     position |-> m.start,
                     confidence |-> confidence.value,
                     category |-> category]))

\* the matches of one keyword, in text order
KeywordMatches(text, bounds, keyword, category, email_data) ==
    Bind(KeywordFindIter(text, bounds, keyword),
    LAMBDA found :
        Tuple([i \in 1..Len(found) |-> MakeMatch(text, keyword, category, found[i], email_data)]))

\* the matches of one category, keyword by keyword
CategoryMatches(self, text, bounds, category, email_data) ==
    Bind(self.cancellation_keywords[category],
    LAMBDA keywords :
        Concat([k \in 1..Len(keywords) |->
                  KeywordMatches(text, bounds, keywords[k], category, email_data)]))

\* a variant that puts equal confidences in the order of their positions
SortByConfidenceThenPosition(matches) ==
    Bind(Tuple(matches),
    LAMBDA ms :
        Bind([i \in 1..Len(ms) |->
                1 + Cardinality({j \in 1..Len(ms) :
                                   \/ FLt[ms[i].confidence, ms[j].confidence]
                                   \/ /\ ms[j].confidence = ms[i].confidence
                                      /\ \/ ms[j].position < ms[i].position
                                         \/ ms[j].position = ms[i].position /\ j < i})],
        LAMBDA rank :
            Tuple([k \in 1..Len(ms) |-> ms[CHOOSE i \in 1..Len(ms) : rank[i] = k]])))

\* list.sort(key=confidence, reverse=True): stable, so equal confidences keep
\* their order.  The i-th of the result is the match with i - 1 matches
\* before it in that order.
SortByConfidence(matches) ==
    Bind(Tuple(matches),
    LAMBDA ms :
        Bind([i \in 1..Len(ms) |->
                1 + Cardinality({j \in 1..Len(ms) :
                                   \/ FLt[ms[i].confidence, ms[j].confidence]
                                   \/ ms[j].confidence = ms[i].confidence /\ j < i})],
        LAMBDA rank :
            Tuple([k \in 1..Len(ms) |-> ms[CHOOSE i \in 1..Len(ms) : rank[i] = k]])))

\* _find_keyword_matches, or Raised
FindKeywordMatches(self, text, email_data) ==
    Bind(Boundaries[text],
    LAMBDA bounds :
        Bind(Concat([c \in 1..Len(Categories) |->
                       CategoryMatches(self, text, bounds, Categories[c], email_data)]),
        LAMBDA matches :
            IF \E i \in 1..Len(matches) : IsRaised(matches[i]) THEN Raised
            ELSE Return(SortByConfidence([i \in 1..Len(matches) |-> matches[i].value]))))

\* pattern.search(text) for a vendor pattern
PatternSearch(pattern, text) ==
    IF pattern.kind = "literal" THEN Contains[text, pattern.a]
    ELSE DotStarSearch[text, pattern.a, pattern.b]

\* _check_amazon_relation
CheckAmazonRelation(self, email_data) ==
    Bind(Lower[Str(email_data.subject) \o " " \o Str(email_data.body)
               \o " " \o Str(email_data.sender)],
    LAMBDA full_text :
        \E i \in 1..Len(self.amazon_patterns) : PatternSearch(self.amazon_patterns[i], full_text))

\* a variant whose hyphenated pattern finds nothing
PatternFindAllLabeledOnly(pattern, text) ==
    Bind(IF pattern.kind = "order" THEN <<>>
         ELSE LabeledFindAll[text, pattern.a],
    LAMBDA found : Tuple([i \in 1..Len(found) |-> found[i].group]))

\* pattern.findall(text) for an order-number pattern: the captured groups
PatternFindAll(pattern, text) ==
    Bind(IF pattern.kind = "order" THEN AmazonOrderFindAll[text]
         ELSE LabeledFindAll[text, pattern.a],
    LAMBDA found : Tuple([i \in 1..Len(found) |-> found[i].group]))

\* a variant that keeps every candidate
UniqueOrdersKeepAll(order_numbers) == order_numbers

\* list(set(order_numbers))
UniqueOrders(order_numbers) == ListOfSet(Range(order_numbers))

MinOrderLen == 8

ValidOrder(order) ==
    Len(order) >= MinOrderLen /\ \E i \in 1..Len(order) : Char(order, i) \in DigitChars

\* the candidates of all patterns, pattern by pattern
OrderCandidates(self, text) ==
    Concat([p \in 1..Len(self.order_number_patterns) |->
              PatternFindAll(self.order_number_patterns[p], text)])

\* _extract_order_numbers
ExtractOrderNumbers(self, text) ==
    Bind(OrderCandidates(self, text),
    LAMBDA order_numbers :
        Bind(UniqueOrders(order_numbers),
        LAMBDA unique_orders : SelectSeq(unique_orders, ValidOrder)))

TopMatches == 5
KeywordsBonus == Float[10, 100]
KeywordsBonusOver == 2
AmazonBonus == Float[15, 100]
OrderBonus == Float[10, 100]
RecentBonus == Float[5, 100]
RecentDays == 7

\* the sum over top_matches of confidence * weight, weight = 1 / (i + 1)
WeightedSum(top_matches) ==
    LET W[k \in 0..Len(top_matches)] ==
            IF k = 0 THEN Zero
            ELSE FAdd[W[k - 1], FMul[top_matches[k].confidence, Float[1, k]]]
    IN  W[Len(top_matches)]

\* the sum of the weights
TotalWeight(top_matches) ==
    LET W[k \in 0..Len(top_matches)] ==
            IF k = 0 THEN Zero ELSE FAdd[W[k - 1], Float[1, k]]
    IN  W[Len(top_matches)]

BaseScore(matches) ==
    Bind(SubSeq(matches, 1, Min(TopMatches, Len(matches))),
    LAMBDA top_matches :
        Bind(TotalWeight(top_matches),
        LAMBDA total_weight :
            IF FLt[Zero, total_weight]
            THEN FDiv[WeightedSum(top_matches), total_weight]
            ELSE Zero))

\* a - b raises TypeError unless both are datetimes, both naive or both aware
SubtractRaises(a, b) ==
    a.kind # "datetime" \/ b.kind # "datetime" \/ a.aware # b.aware

\* the try block of _calculate_confidence_score raises before the bonus
TimeDiffRaises(email_data, now) ==
    SubtractRaises(NormalizeDatetime(Datetime(now, FALSE), now),
                   NormalizeDatetime(email_data.raw_date, now))

\* the try block of _calculate_confidence_score: time_diff.days <= 7
IsRecent(email_data, now) ==
    /\ ~TimeDiffRaises(email_data, now)
    /\ DeltaDays(NormalizeDatetime(Datetime(now, FALSE), now),
                 NormalizeDatetime(email_data.raw_date, now)) <= RecentDays

\* _calculate_confidence_score logs the warning of its except branch
ScoreWarns(matches, email_data, now) ==
    Len(matches) > 0 /\ TimeDiffRaises(email_data, now)

\* a variant that counts the distinct keywords of the top matches only
ScoreBonusTopKeywords(self, matches, email_data, now) ==
    Bind(IF Cardinality({matches[i].keyword : i \in 1..Min(TopMatches, Len(matches))})
            > KeywordsBonusOver
         THEN KeywordsBonus ELSE Zero,
    LAMBDA b1 :
    Bind(IF CheckAmazonRelation(self, email_data) THEN FAdd[b1, AmazonBonus] ELSE b1,
    LAMBDA b2 :
    Bind(IF Len(ExtractOrderNumbers(self, Str(email_data.subject) \o " " \o Str(email_data.body))) > 0
         THEN FAdd[b2, OrderBonus] ELSE b2,
    LAMBDA b3 :
        IF IsRecent(email_data, now) THEN FAdd[b3, RecentBonus] ELSE b3)))

ScoreBonus(self, matches, email_data, now) ==
    Bind(IF Cardinality({matches[i].keyword : i \in 1..Len(matches)}) > KeywordsBonusOver
         THEN KeywordsBonus ELSE Zero,
    LAMBDA b1 :
    Bind(IF CheckAmazonRelation(self, email_data) THEN FAdd[b1, AmazonBonus] ELSE b1,
    LAMBDA b2 :
    Bind(IF Len(ExtractOrderNumbers(self, Str(email_data.subject) \o " " \o Str(email_data.body))) > 0
         THEN FAdd[b2, OrderBonus] ELSE b2,
    LAMBDA b3 :
        IF IsRecent(email_data, now) THEN FAdd[b3, RecentBonus] ELSE b3)))

\* a variant without the final min(1.0, ...)
CalculateConfidenceScoreUncapped(self, matches, email_data, now) ==
    IF Len(matches) = 0 THEN Zero
    ELSE FAdd[BaseScore(matches), ScoreBonus(self, matches, email_data, now)]

\* a variant without the early return for an empty match list
CalculateConfidenceScoreNoEarlyReturn(self, matches, email_data, now) ==
    FMin[One, FAdd[BaseScore(matches), ScoreBonus(self, matches, email_data, now)]]

\* _calculate_confidence_score
CalculateConfidenceScore(self, matches, email_data, now) ==
    IF Len(matches) = 0 THEN Zero
    ELSE FMin[One, FAdd[BaseScore(matches), ScoreBonus(self, matches, email_data, now)]]

CancellationThreshold == Float[3, 10]
HighThreshold == Float[8, 10]
MediumThreshold == Float[5, 10]

\* a variant with a strict comparison
IsCancellationStrict(confidence_score) == FLt[CancellationThreshold, confidence_score]

\* confidence_score >= 0.3
IsCancellation(confidence_score) == FGeq[confidence_score, CancellationThreshold]

\* a variant that looks at the score only
DeterminePriorityLevelByScore(matches, confidence) ==
    IF FGeq[confidence, HighThreshold] THEN "hoch"
    ELSE IF FGeq[confidence, MediumThreshold] THEN "mittel"
    ELSE "niedrig"

\* _determine_priority_level
DeterminePriorityLevel(matches, confidence) ==
    IF (\E i \in 1..Len(matches) : matches[i].category = "priority")
       \/ FGeq[confidence, HighThreshold]
    THEN "hoch"
    ELSE IF FGeq[confidence, MediumThreshold] THEN "mittel"
    ELSE "niedrig"

\* the AnalysisResult, which holds the reference to the record, not a copy
AnalysisResult(ref, is_cancellation, matches, score, priority_level, amazon_related, orders) ==
    [email_data |-> ref,
     is_cancellation |-> is_cancellation,
     matches |-> matches,
     confidence_score |-> score,
     priority_level |-> priority_level,
     amazon_related |-> amazon_related,
     order_numbers |-> orders]

\* f"{email_data.subject} {email_data.body}".lower()
FullText(email_data) == Lower[Str(email_data.subject) \o " " \o Str(email_data.body)]

\* _analyze_single_email on the record `ref` refers to, or Raised
AnalyzeSingleEmail(self, ref, now) ==
    Bind(Deref(ref),
    LAMBDA email_data :
    Bind(FullText(email_data),
    LAMBDA full_text :
    Bind(FindKeywordMatches(self, full_text, email_data),
    LAMBDA found :
        IF IsRaised(found) THEN Raised
        ELSE Bind(CalculateConfidenceScore(self, found.value, email_data, now),
             LAMBDA confidence_score :
                 Return(AnalysisResult(ref,
                                       IsCancellation(confidence_score),
                                       found.value,
                                       confidence_score,
                                       DeterminePriorityLevel(found.value, confidence_score),
                                       CheckAmazonRelation(self, email_data),
                                       ExtractOrderNumbers(self, full_text)))))))

\* The analyses by the analyzer as constructed, of every record at every
\* time of the clock: row ref, column TimeIndex(now)
TimeIndex(now) == ((now - Now0) \div TickHours) + 1

AnalysisTable ==
    Tuple([ref \in MessageRefs |->
        Tuple([k \in 1..(MaxTicks + 1) |->
            AnalyzeSingleEmail(EmailAnalyzerInit, ref, Now0 + (k - 1) * TickHours)])])

(***************************************************************************)
(* Aggregation and formatting.                                             *)
(***************************************************************************)
\* counter[key] += 1 on a Counter: the keys with their counts, in
\* insertion order
CounterInc(counter, key) ==
    IF \E i \in 1..Len(counter) : counter[i].key = key
    THEN [i \in 1..Len(counter) |->
            IF counter[i].key = key
            THEN [key |-> key, count |-> counter[i].count + 1]
            ELSE counter[i]]
    ELSE Append(counter, [key |-> key, count |-> 1])

\* counter[key] += 1 for the keys in turn
CounterIncAll(counter, keys) ==
    LET C[k \in 0..Len(keys)] ==
            IF k = 0 THEN counter
            ELSE Bind(C[k - 1], LAMBDA c : Tuple(CounterInc(c, keys[k])))
    IN  C[Len(keys)]

\* the statistics dict at the start of analyze_cancellation_requests
NewStatistics(emails) ==
    [total_emails |-> Len(emails),
     cancellation_count |-> 0,
     amazon_related |-> 0,
     high_priority |-> 0,
     keyword_distribution |-> <<>>,
     sender_distribution |-> <<>>,
     date_distribution |-> <<>>]

\* sender.split('@')[-1] if '@' in sender else 'unknown'
SenderDomain[sender \in STRING] ==
    IF Contains[sender, "@"]
    THEN SubSeq(sender,
                1 + CHOOSE i \in 1..Len(sender) :
                        /\ Char(sender, i) = "@"
                        /\ \A j \in (i + 1)..Len(sender) : Char(sender, j) # "@",
                Len(sender))
    ELSE "unknown"

\* a variant that counts a cancellation once per match
UpdateCountsPerMatch(stats, analysis) ==
    [stats EXCEPT
        !.cancellation_count = @ + BoolInt(analysis.is_cancellation) * Len(analysis.matches),
        !.amazon_related = @ + BoolInt(analysis.amazon_related),
        !.high_priority = @ + BoolInt(analysis.priority_level = "hoch")]

\* a variant that assigns the flag of the message instead of adding it
UpdateCountsAssign(stats, analysis) ==
    [stats EXCEPT
        !.cancellation_count = BoolInt(analysis.is_cancellation),
        !.amazon_related = BoolInt(analysis.amazon_related),
        !.high_priority = BoolInt(analysis.priority_level = "hoch")]

\* a variant that counts a message as high priority by its flag
UpdateCountsHighByFlag(stats, analysis) ==
    [stats EXCEPT
        !.cancellation_count = @ + BoolInt(analysis.is_cancellation),
        !.amazon_related = @ + BoolInt(analysis.amazon_related),
        !.high_priority = @ + BoolInt(analysis.is_cancellation)]

\* the three counts of _update_statistics
UpdateCounts(stats, analysis) ==
    [stats EXCEPT
        !.cancellation_count = @ + BoolInt(analysis.is_cancellation),
        !.amazon_related = @ + BoolInt(analysis.amazon_related),
        !.high_priority = @ + BoolInt(analysis.priority_level = "hoch")]

\* a variant that counts a keyword once per message
UpdateKeywordsOncePerMessage(stats, analysis) ==
    [stats EXCEPT !.keyword_distribution =
        CounterIncAll(@, ListOfSet({analysis.matches[i].keyword : i \in 1..Len(analysis.matches)}))]

\* the keyword distribution of _update_statistics
UpdateKeywords(stats, analysis) ==
    [stats EXCEPT !.keyword_distribution =
        CounterIncAll(@, [i \in 1..Len(analysis.matches) |-> analysis.matches[i].keyword])]

\* a variant without the key 'unknown': sender.split('@')[-1]
UpdateSendersLastPart(stats, email_data) ==
    [stats EXCEPT !.sender_distribution =
        Tuple(CounterInc(@, IF Contains[Val(email_data.sender), "@"]
                            THEN SenderDomain[Val(email_data.sender)]
                            ELSE Val(email_data.sender)))]

\* the sender distribution of _update_statistics, the sender being a string
UpdateSenders(stats, email_data) ==
    [stats EXCEPT !.sender_distribution =
        Tuple(CounterInc(@, SenderDomain[Val(email_data.sender)]))]

\* _update_statistics: the dict is updated in place, so what was done before
\* an exception stays done.  [stats, raised]
UpdateStatistics(stats, analysis) ==
    Bind(Deref(analysis.email_data),
    LAMBDA email_data :
    Bind(UpdateCounts(stats, analysis),
    LAMBDA s1 :
    Bind(UpdateKeywords(s1, analysis),
    LAMBDA s2 :
        IF IsNone(email_data.sender) THEN [stats |-> s2, raised |-> TRUE]
        ELSE Bind(UpdateSenders(s2, email_data),
             LAMBDA s3 :
                 IF email_data.raw_date.kind # "datetime" THEN [stats |-> s3, raised |-> TRUE]
                 ELSE [stats |-> [s3 EXCEPT !.date_distribution =
                                     Tuple(CounterInc(@, DayKey(email_data.raw_date)))],
                       raised |-> FALSE]))))

DigitStr(n) == Char("0123456789", n + 1)
IntStr[n \in Nat] == IF n < 10 THEN DigitStr(n) ELSE IntStr[n \div 10] \o DigitStr(n % 10)

\* the hundredths nearest to x, 0 <= x < 2^52, a tie going to the even
\* neighbour
Hundredths(x) ==
    IF x = Zero THEN 0
    ELSE Bind(BRoundShr[BMul[x.m, BInt[100]], 0 - x.e],
         LAMBDA q : Limb(q, 1) + Limb(q, 2) * Base)

\* f"{x:.2f}"
Format2f(x) ==
    Bind(Hundredths(x),
    LAMBDA h : IntStr[h \div 100] \o "." \o DigitStr((h % 100) \div 10) \o DigitStr(h % 10))

PreviewLen == 200

\* constants, evaluated once: ScoreTexts and Rates
VARIABLES score_texts, rates

\* f"{x:.2f}" of every score of the table of analyses, as pairs <<score, text>>
ScoreTexts(table) ==
    {<<analysis.value.confidence_score, Format2f(analysis.value.confidence_score)>> :
        analysis \in UNION {Range(table[ref]) : ref \in MessageRefs}
                     \ {Raised}}

\* f"{analysis.confidence_score:.2f}"
ScoreText(x) ==
    IF \E pair \in score_texts : pair[1] = x
    THEN (CHOOSE pair \in score_texts : pair[1] = x)[2]
    ELSE Format2f(x)

\* _format_cancellation_result, or Raised
FormatCancellationResult(analysis) ==
    Bind(Deref(analysis.email_data),
    LAMBDA email_data :
        IF IsNone(email_data.body) THEN Raised
        ELSE Return(
            [Absender |-> email_data.sender,
             Betreff |-> email_data.subject,
             Datum |-> email_data.date,
             Schluesselwoerter |->
                 Join(ListOfSet({analysis.matches[i].keyword :
                                 i \in 1..Min(TopMatches, Len(analysis.matches))}), ", "),
             BodyPreview |-> IF Len(Val(email_data.body)) > PreviewLen
                             THEN SubSeq(Val(email_data.body), 1, PreviewLen) \o "..."
                             ELSE Val(email_data.body),
             ConfidenceScore |-> ScoreText(analysis.confidence_score),
             Prioritaet |-> analysis.priority_level,
             AmazonBezug |-> IF analysis.amazon_related THEN "Ja" ELSE "Nein",
             Bestellnummern |-> IF Len(analysis.order_numbers) > 0
                                THEN Join(analysis.order_numbers, ", ") ELSE "Keine gefunden",
             MatchCount |-> Len(analysis.matches)]))

\* _format_email_summary, or Raised
FormatEmailSummary(ref) ==
    Bind(Deref(ref),
    LAMBDA email_data :
        IF IsNone(email_data.body) THEN Raised
        ELSE Return([id |-> email_data.id,
                     subject |-> email_data.subject,
                     sender |-> email_data.sender,
                     date |-> email_data.date,
                     body_length |-> Len(Val(email_data.body))]))

Percent == 100

\* a variant that yields the fraction, not the percentage
CancellationRateFraction(stats) ==
    IF stats.total_emails > 0
    THEN Float[stats.cancellation_count, stats.total_emails]
    ELSE Zero

\* (cancellation_count / total_emails) * 100 of every count a batch can
\* reach: row total_emails, column cancellation_count + 1
Rates ==
    Tuple([total \in 1..MaxBatch |->
        Tuple([k \in 1..(total + 1) |->
            FMul[Float[k - 1, total], Float[Percent, 1]]])])

\* statistics['cancellation_rate']
CancellationRate(stats) ==
    IF stats.total_emails > 0
    THEN IF stats.total_emails <= MaxBatch
            /\ stats.cancellation_count <= stats.total_emails
         THEN rates[stats.total_emails][stats.cancellation_count + 1]
         ELSE FMul[Float[stats.cancellation_count, stats.total_emails], Float[Percent, 1]]
    ELSE Zero

\* the statistics dict as returned, with the derived rate
WithRate(stats) ==
    [total_emails |-> stats.total_emails,
     cancellation_count |-> stats.cancellation_count,
     amazon_related |-> stats.amazon_related,
     high_priority |-> stats.high_priority,
     keyword_distribution |-> stats.keyword_distribution,
     sender_distribution |-> stats.sender_distribution,
     date_distribution |-> stats.date_distribution,
     cancellation_rate |-> CancellationRate(stats)]

(***************************************************************************)
(* Trends.                                                                 *)
(***************************************************************************)
\* the empty dict {}
EmptyDict == [empty |-> TRUE]

\* Counter(keys): the keys with their counts, in order of first occurrence
CounterOf(keys) == CounterIncAll(<<>>, keys)

\* a variant that leaves the entries in the order of insertion
MostCommonUnsorted(counter) == Tuple(counter)

\* Counter.most_common(): by count, largest first; equal counts keep the
\* order of insertion
MostCommon(counter) ==
    Bind(Tuple(counter),
    LAMBDA cs :
        Bind([i \in 1..Len(cs) |->
                1 + Cardinality({j \in 1..Len(cs) :
                                   \/ cs[j].count > cs[i].count
                                   \/ cs[j].count = cs[i].count /\ j < i})],
        LAMBDA rank :
            Tuple([k \in 1..Len(cs) |-> cs[CHOOSE i \in 1..Len(cs) : rank[i] = k]])))

\* a variant that takes every result with a date, cancellation or not
QualifiesAnyDated(r) == Deref(r.email_data).raw_date.kind # "none"

\* r.is_cancellation and r.email_data.raw_date: None is falsy, a datetime
\* (and the value of another type that OtherDate stands for) is truthy
Qualifies(r) == r.is_cancellation /\ Deref(r.email_data).raw_date.kind # "none"

\* the list `dates` of analyze_trends
TrendDates(rs, now) ==
    Bind(SelectSeq(rs, Qualifies),
    LAMBDA qs :
        Tuple([i \in 1..Len(qs) |-> NormalizeDatetime(Deref(qs[i].email_data).raw_date, now)]))

\* the dict analyze_trends builds from a non-empty list of dates
TrendSummary(dates) ==
    Bind(MostCommon(CounterOf([i \in 1..Len(dates) |-> Weekday(dates[i])])),
    LAMBDA weekday_counts :
    Bind(MostCommon(CounterOf([i \in 1..Len(dates) |-> HourOf(dates[i])])),
    LAMBDA hour_counts :
        [empty |-> FALSE,
         daily_trend |-> MostCommon(CounterOf([i \in 1..Len(dates) |-> DayKey(dates[i])])),
         weekday_pattern |-> weekday_counts,
         hourly_pattern |-> hour_counts,
         peak_day |-> weekday_counts[1],
         peak_hour |-> hour_counts[1]]))

\* analyze_trends
AnalyzeTrends(rs, now) ==
    IF Len(rs) = 0 THEN EmptyDict
    ELSE Bind(TrendDates(rs, now),
         LAMBDA dates : IF Len(dates) = 0 THEN EmptyDict ELSE TrendSummary(dates))


(***************************************************************************)
(* The Gmail client.  The IMAP server and the network decide how each      *)
(* command ends; every method is one step.                                 *)
(*   client   the GmailClient object: connection (None or the IMAP4_SSL    *)
(*            object), email, is_authenticated                             *)
(*   call     the last call on the client: the method, its arguments, what *)
(*            the server did, what was fetched and what came back          *)
(***************************************************************************)
VARIABLES client, call

MaxIds == 3
MaxEmails == 3

\* GmailClient.__init__
GmailClientInit == [connection |-> None, email |-> None, is_authenticated |-> FALSE]

\* no call yet
NoCall == [method |-> "none"]

\* _cleanup_connection
CleanupConnection(c) ==
    [c EXCEPT !.connection = None, !.email = None, !.is_authenticated = FALSE]

Addresses == {"a@gmail.com", "b@gmail.com"}

\* how a connect can go: the constructor of IMAP4_SSL raises; login raises
\* (imaplib raises on every answer but OK); select raises; select returns
\* ('NO', ...) without raising; all three succeed
ConnectOutcomes == {"socket raises", "login raises", "select raises", "select NO", "ok"}

\* a variant whose except branches do not reset the client
ConnectWithoutCleanup(c, email_address, outcome) ==
    IF outcome = "socket raises" THEN [client |-> c, result |-> FALSE]
    ELSE IF outcome \in {"login raises", "select raises"}
         THEN [client |-> [c EXCEPT !.connection = Some("IMAP4_SSL")], result |-> FALSE]
         ELSE [client |-> [connection |-> Some("IMAP4_SSL"),
                           email |-> Some(email_address),
                           is_authenticated |-> TRUE],
               result |-> TRUE]

\* connect(email_address, app_password): the client afterwards and the
\* returned bool; the value select returns is not looked at
Connect(c, email_address, outcome) ==
    IF outcome = "socket raises" THEN [client |-> CleanupConnection(c), result |-> FALSE]
    ELSE IF outcome \in {"login raises", "select raises"}
         THEN [client |-> CleanupConnection([c EXCEPT !.connection = Some("IMAP4_SSL")]),
               result |-> FALSE]
         ELSE [client |-> [connection |-> Some("IMAP4_SSL"),
                           email |-> Some(email_address),
                           is_authenticated |-> TRUE],
               result |-> TRUE]

\* disconnect(): close() or logout() may raise, which is ignored
Disconnect(c, raises) ==
    IF ~IsNone(c.connection) THEN CleanupConnection(c) ELSE c

\* is_connected(): the client afterwards and the returned bool
IsConnected(c, noop_raises) ==
    IF IsNone(c.connection) \/ ~c.is_authenticated THEN [client |-> c, result |-> FALSE]
    ELSE IF noop_raises THEN [client |-> CleanupConnection(c), result |-> FALSE]
    ELSE [client |-> c, result |-> TRUE]

\* how the NOOP of is_connected can go: it is sent only if there is a
\* connection and the client is authenticated
NoopOutcomes(c) ==
    IF IsNone(c.connection) \/ ~c.is_authenticated THEN {FALSE} ELSE BOOLEAN

\* email_ids[-max_emails:] for max_emails >= 0: -0 is 0, the start of the
\* list
LastIds(email_ids, max_emails) ==
    IF max_emails = 0 \/ max_emails >= Len(email_ids) THEN email_ids
    ELSE SubSeq(email_ids, Len(email_ids) - max_emails + 1, Len(email_ids))

\* the ids a search can return: message numbers in ascending order
IdLists ==
    {ids \in UNION {[1..n -> 1..MaxIds] : n \in 0..MaxIds} :
        \A i, j \in 1..Len(ids) : i < j => ids[i] < ids[j]}

\* how the SEARCH command can go
SearchOutcomes == {"OK", "NO", "raises"}

\* search_emails(max_emails=max_emails): the client afterwards, the
\* exception raised ("" for none), the ids fetched and the ids of the
\* records returned; _fetch_email_data returns None for the ids in `lost`
SearchEmails(c, max_emails, noop_raises, outcome, found, lost) ==
    Bind(IsConnected(c, noop_raises),
    LAMBDA connected :
        IF ~connected.result
        THEN [client |-> connected.client, raised |-> "ConnectionError",
              fetched |-> <<>>, returned |-> <<>>]
        ELSE IF outcome # "OK"
        THEN [client |-> connected.client, raised |-> "Exception",
              fetched |-> <<>>, returned |-> <<>>]
        ELSE IF Len(found) = 0
        THEN [client |-> connected.client, raised |-> "", fetched |-> <<>>, returned |-> <<>>]
        ELSE Bind(IF Len(found) > max_emails THEN LastIds(found, max_emails) ELSE found,
             LAMBDA email_ids :
                 [client |-> connected.client, raised |-> "",
                  fetched |-> email_ids,
                  returned |-> SelectSeq(email_ids, LAMBDA id : id \notin lost)]))
(***************************************************************************)
(* The state machine: calls of analyze_cancellation_requests on batches of *)
(* records, one loop iteration per step, while the clock advances.         *)
(*   self                the EmailAnalyzer object                          *)
(*   clock               datetime.now(), in hours                          *)
(*   pc                  "idle", "loop" (in the for loop), "done" (the     *)
(*                       call returned), "raised" (the call raised)        *)
(*   emails, idx         the batch and the 1-based index of the next record*)
(*   results, cancellation_emails, statistics   the locals of the call     *)
(*   report              <<>> or <<the rest of the returned dict>>; its    *)
(*                       'analysis_results' and 'cancellation_emails' are  *)
(*                       the lists results and cancellation_emails         *)
(*   trends              <<>> or <<what analyze_trends returned for the    *)
(*                       analysis_results of the call>>                    *)
(*   analyses            constant: the rows of AnalysisTable for the pool  *)
(*   score_texts, rates  constants: ScoreTexts and Rates, evaluated once   *)
(*   pool                constant: the records the batches are drawn from  *)
(*   analysed_at         history: the clock at which results[i] was made   *)
(*   failed              history: the batch positions whose iteration      *)
(*                       ended in the except branch (each logged as an     *)
(*                       error)                                            *)
(*   written             the attributes of records assigned to since the   *)
(*                       construction, as pairs <<reference, attribute>>   *)
(*   passed              history: the list as it was passed to the call    *)
(*   client, call        the GmailClient and the last call on it           *)
(*   warned              history: the indices in results of the analyses   *)
(*                       whose scoring logged the warning of its except    *)
(*                       branch                                            *)
(***************************************************************************)
VARIABLES self, clock, pc, emails, idx, results, cancellation_emails, statistics,
          report, trends, analyses, pool, analysed_at, failed, warned, written, passed

vars == <<self, clock, pc, emails, idx, results, cancellation_emails, statistics,
          report, trends, analyses, score_texts, rates, pool, analysed_at, failed, warned, written, passed, client, call>>

\* a variant that carries the matches of the previous analysis of the call
\* over to the next one
AnalyzeWithCarryOver(self_, table, ref, now) ==
    IF Len(results) > 0
    THEN Return([results[Len(results)] EXCEPT !.email_data = ref])
    ELSE table[ref][TimeIndex(now)]

\* self._analyze_single_email(email_data) at time `now`; the analyses of
\* the analyzer as constructed are looked up in `table`
Analyze(self_, table, ref, now) ==
    IF self_ = EmailAnalyzerInit THEN table[ref][TimeIndex(now)]
    ELSE AnalyzeSingleEmail(self_, ref, now)

\* a variant in which an analysis uses up the German keywords
SelfAfterAnalysisForgetful(self_, ref) ==
    [self_ EXCEPT !.cancellation_keywords.primary_de = <<>>]

\* a variant that lowers the subject of the record in place
AnalysisWritesSubject(ref) == {<<ref, "subject">>}

\* the attributes of the record that the iteration on it assigns to:
\* _analyze_single_email, _update_statistics and _format_cancellation_result
\* only read email_data
AnalysisWrites(ref) == {}

\* the analyzer after an analysis: no method assigns to an attribute of self
SelfAfterAnalysis(self_, ref) == self_

Batches == UNION {[1..n -> pool] : n \in 0..MaxBatch}
TrendBatches == UNION {[1..n -> pool] : n \in 0..MaxTrendBatch}

\* the state after construction of the analyzer, with the records at hand
InitWith(refs) ==
    /\ pool = refs
    /\ self = EmailAnalyzerInit
    /\ clock = Now0
    /\ pc = "idle"
    /\ emails = <<>>
    /\ passed = <<>>
    /\ written = {}
    /\ client = GmailClientInit
    /\ call = NoCall
    /\ idx = 1
    /\ results = <<>>
    /\ cancellation_emails = <<>>
    /\ statistics = NewStatistics(<<>>)
    /\ report = <<>>
    /\ trends = <<>>
    /\ analyses = Tuple([ref \in MessageRefs |-> IF ref \in refs THEN AnalysisTable[ref] ELSE <<>>])
    /\ score_texts = ScoreTexts(analyses)
    /\ rates = Rates
    /\ analysed_at = <<>>
    /\ failed = {}
    /\ warned = {}

Init == InitWith(MixedRefs)

InitScoring == InitWith(ScoringRefs)

InitTrends == InitWith(TrendRefs)

\* analyze_cancellation_requests(batch) up to the for loop
Call(batch) ==
    /\ pc = "idle"
    /\ pc' = "loop"
    /\ emails' = batch
    /\ passed' = batch
    /\ idx' = 1
    /\ results' = <<>>
    /\ cancellation_emails' = <<>>
    /\ statistics' = NewStatistics(batch)
    /\ report' = <<>>
    /\ trends' = <<>>
    /\ analysed_at' = <<>>
    /\ failed' = {}
    /\ warned' = {}
    /\ UNCHANGED <<self, clock, analyses, score_texts, rates, pool, client, call, written>>

\* the try block after a successful analysis: append, update, format
TryRest(analysis) ==
    \E updated \in {UpdateStatistics(statistics, analysis)} :
    \E formatted \in {IF ~updated.raised /\ analysis.is_cancellation
                      THEN FormatCancellationResult(analysis)
                      ELSE Return(<<>>)} :
        /\ results' = Append(results, analysis)
        /\ analysed_at' = Append(analysed_at, clock)
        /\ statistics' = updated.stats
        /\ cancellation_emails' =
              IF ~updated.raised /\ analysis.is_cancellation /\ ~IsRaised(formatted)
              THEN Append(cancellation_emails, formatted.value)
              ELSE cancellation_emails
        /\ failed' =
              IF updated.raised \/ IsRaised(formatted) THEN failed \cup {idx} ELSE failed

\* one iteration of the for loop, its try and except included
LoopStep ==
    /\ pc = "loop"
    /\ idx <= Len(emails)
    /\ \E analysis \in {Analyze(self, analyses, emails[idx], clock)} :
          IF IsRaised(analysis)
          THEN /\ failed' = failed \cup {idx}
               /\ UNCHANGED <<results, analysed_at, statistics, cancellation_emails, warned>>
          ELSE /\ TryRest(analysis.value)
               /\ warned' = IF ScoreWarns(analysis.value.matches, Deref(emails[idx]), clock)
                            THEN warned \cup {Len(results) + 1} ELSE warned
    /\ self' = SelfAfterAnalysis(self, emails[idx])
    /\ idx' = idx + 1
    /\ written' = written \cup AnalysisWrites(emails[idx])
    /\ UNCHANGED <<clock, pc, emails, report, trends, analyses, score_texts, rates, pool, client, call, passed>>

\* after the loop: the rate and the returned dict; an exception of
\* _format_email_summary is not caught
Finish ==
    /\ pc = "loop"
    /\ idx > Len(emails)
    /\ \E all_emails \in {Tuple([i \in 1..Len(results) |->
                                   FormatEmailSummary(results[i].email_data)])} :
          IF \E i \in 1..Len(all_emails) : IsRaised(all_emails[i])
          THEN /\ pc' = "raised"
               /\ report' = <<>>
          ELSE /\ pc' = "done"
               /\ report' = <<[all_emails |-> [i \in 1..Len(all_emails) |-> all_emails[i].value],
                               statistics |-> WithRate(statistics),
                               timestamp |-> clock]>>
    /\ UNCHANGED <<self, clock, emails, idx, results, cancellation_emails, statistics,
                   trends, analyses, score_texts, rates, pool, client, call, written, passed, analysed_at, failed, warned>>

\* analyze_trends(analysis_results) on what the call returned
Trends ==
    /\ pc = "done"
    /\ trends = <<>>
    /\ trends' = <<AnalyzeTrends(results, clock)>>
    /\ UNCHANGED <<self, clock, pc, emails, idx, results, cancellation_emails, statistics,
                   report, analyses, score_texts, rates, pool, client, call, written, passed, analysed_at, failed, warned>>

\* the caller is through with what the call returned or raised
Release ==
    /\ pc \in {"done", "raised"}
    /\ pc' = "idle"
    /\ emails' = <<>>
    /\ passed' = <<>>
    /\ idx' = 1
    /\ results' = <<>>
    /\ cancellation_emails' = <<>>
    /\ statistics' = NewStatistics(<<>>)
    /\ report' = <<>>
    /\ trends' = <<>>
    /\ analysed_at' = <<>>
    /\ failed' = {}
    /\ warned' = {}
    /\ UNCHANGED <<self, clock, analyses, score_texts, rates, pool, client, call, written>>

\* time passes before a call or during one
Tick ==
    /\ pc \in {"idle", "loop"}
    /\ clock < Now0 + MaxTicks * TickHours
    /\ clock' = clock + TickHours
    /\ UNCHANGED <<self, pc, emails, idx, results, cancellation_emails, statistics,
                   report, trends, analyses, score_texts, rates, pool, client, call, written, passed, analysed_at, failed, warned>>

Next ==
    \/ \E batch \in Batches : Call(batch)
    \/ LoopStep
    \/ Finish
    \/ Trends
    \/ Release
    \/ Tick

Spec == Init /\ [][Next]_vars

SpecScoring == InitScoring /\ [][Next]_vars

\* the calls on longer batches of the records of TrendRefs
NextTrends ==
    \/ \E batch \in TrendBatches : Call(batch)
    \/ LoopStep
    \/ Finish
    \/ Trends
    \/ Release
    \/ Tick

SpecTrends == InitTrends /\ [][NextTrends]_vars

(***************************************************************************)
(* The calls on a GmailClient, no analyzer being at work.                  *)
(***************************************************************************)
analyzer_vars ==
    <<self, clock, pc, emails, idx, results, cancellation_emails, statistics, report, trends,
      analyses, score_texts, rates, pool, analysed_at, failed, warned, written, passed>>

\* the state after construction of a GmailClient; no analyzer exists
InitGmail ==
    /\ client = GmailClientInit
    /\ call = NoCall
    /\ pool = {}
    /\ self = <<>>
    /\ clock = Now0
    /\ pc = "idle"
    /\ emails = <<>>
    /\ passed = <<>>
    /\ written = {}
    /\ idx = 1
    /\ results = <<>>
    /\ cancellation_emails = <<>>
    /\ statistics = <<>>
    /\ report = <<>>
    /\ trends = <<>>
    /\ analyses = <<>>
    /\ score_texts = {}
    /\ rates = <<>>
    /\ analysed_at = <<>>
    /\ failed = {}
    /\ warned = {}

DoConnect ==
    /\ \E email_address \in Addresses, outcome \in ConnectOutcomes :
       \E done \in {Connect(client, email_address, outcome)} :
          /\ client' = done.client
          /\ call' = [method |-> "connect", before |-> client, email_address |-> email_address,
                      outcome |-> outcome, result |-> done.result]
    /\ UNCHANGED analyzer_vars

DoDisconnect ==
    /\ \E raises \in BOOLEAN :
          /\ client' = Disconnect(client, raises)
          /\ call' = [method |-> "disconnect", before |-> client, raises |-> raises]
    /\ UNCHANGED analyzer_vars

DoIsConnected ==
    /\ \E noop_raises \in NoopOutcomes(client) :
       \E done \in {IsConnected(client, noop_raises)} :
          /\ client' = done.client
          /\ call' = [method |-> "is_connected", before |-> client, noop_raises |-> noop_raises,
                      result |-> done.result]
    /\ UNCHANGED analyzer_vars

\* the SEARCH command is sent on a live connection only, and the ids are
\* read from an OK answer only
DoSearchEmails ==
    /\ \E max_emails \in 0..MaxEmails, noop_raises \in NoopOutcomes(client) :
       \E connected \in {IsConnected(client, noop_raises).result} :
       \E outcome \in IF connected THEN SearchOutcomes ELSE {"not sent"} :
       \E found \in IF outcome = "OK" THEN IdLists ELSE {<<>>} :
       \E lost \in SUBSET Range(found) :
       \E done \in {SearchEmails(client, max_emails, noop_raises, outcome, found, lost)} :
          /\ client' = done.client
          /\ call' = [method |-> "search_emails", before |-> client, max_emails |-> max_emails,
                      noop_raises |-> noop_raises, connected |-> connected,
                      outcome |-> outcome, found |-> found, lost |-> lost,
                      raised |-> done.raised, fetched |-> done.fetched,
                      returned |-> done.returned]
    /\ UNCHANGED analyzer_vars

NextGmail ==
    \/ DoConnect
    \/ DoDisconnect
    \/ DoIsConnected
    \/ DoSearchEmails

SpecGmail == InitGmail /\ [][NextGmail]_vars
(***************************************************************************)
(* Properties.  They speak of the analyses appended to `results` by the    *)
(* call that is running or has ended, and of its statistics.               *)
(***************************************************************************)
ResultIndices == 1..Len(results)

HasPriorityMatch(r) == \E k \in 1..Len(r.matches) : r.matches[k].category = "priority"

NoDuplicates(xs) == \A a, b \in 1..Len(xs) : a # b => xs[a] # xs[b]

HasDigit(s) == \E k \in 1..Len(s) : Char(s, k) \in DigitChars

CancellationsIn(rs) == Cardinality({i \in 1..Len(rs) : rs[i].is_cancellation})

\* the scores and rates the properties name
Score030 == Float[30, 100]
Score050 == Float[50, 100]
Score080 == Float[80, 100]
Rate50 == Float[50, 1]
Rate100 == Float[100, 1]

\* C1: every confidence_score stored in an AnalysisResult lies in [0, 1],
\* and it is exactly 0 when the match list is empty, whatever the vendor,
\* identifier and recency conditions are.
C1_ScoreInUnitInterval ==
    \A i \in ResultIndices :
        /\ FLeq[Zero, results[i].confidence_score]
        /\ FLeq[results[i].confidence_score, One]
        /\ Len(results[i].matches) = 0 => results[i].confidence_score = Zero

\* C1 happens: an analysis without matches of a recent, vendor-related
\* message with an identifier, beside one whose base score and bonus sum to
\* more than 1.
C1_Witness ==
    /\ \E i \in ResultIndices :
          /\ Len(results[i].matches) = 0
          /\ results[i].amazon_related
          /\ Len(results[i].order_numbers) > 0
          /\ IsRecent(Deref(results[i].email_data), analysed_at[i])
    /\ \E i \in ResultIndices :
          /\ results[i].confidence_score = One
          /\ FLt[results[i].matches[Len(results[i].matches)].confidence, One]
          /\ Len(results[i].order_numbers) > 0

\* C2: is_cancellation is true exactly when confidence_score >= 0.30.
C2_CancellationIffThreshold ==
    \A i \in ResultIndices :
        results[i].is_cancellation <=> FGeq[results[i].confidence_score, Score030]

\* C2 happens: a score of exactly 0.30 classified as a cancellation, beside
\* a score below 0.30 that is not.
C2_Witness ==
    /\ \E i \in ResultIndices :
          results[i].confidence_score = Score030 /\ results[i].is_cancellation
    /\ \E i \in ResultIndices :
          FLt[results[i].confidence_score, Score030] /\ ~results[i].is_cancellation

\* C3: the priority level is 'hoch' (high) if a match has the priority
\* category or the score is >= 0.80, else 'mittel' (medium) if the score is
\* >= 0.50, else 'niedrig' (low).
C3_PriorityRule ==
    \A i \in ResultIndices :
        /\ results[i].priority_level \in {"hoch", "mittel", "niedrig"}
        /\ results[i].priority_level =
              IF HasPriorityMatch(results[i]) \/ FGeq[results[i].confidence_score, Score080]
              THEN "hoch"
              ELSE IF FGeq[results[i].confidence_score, Score050] THEN "mittel"
              ELSE "niedrig"

\* C3 happens: a priority match with a score below 0.80 gives 'hoch', beside
\* a score of exactly 0.50 without one that gives 'mittel'.
C3_Witness ==
    /\ \E i \in ResultIndices :
          /\ HasPriorityMatch(results[i])
          /\ FLt[results[i].confidence_score, Score080]
          /\ results[i].priority_level = "hoch"
    /\ \E i \in ResultIndices :
          /\ ~HasPriorityMatch(results[i])
          /\ results[i].confidence_score = Score050
          /\ results[i].priority_level = "mittel"

\* C4: a message whose iteration raised (in the analysis, the statistics
\* update or the formatting) is not in analysis_results, the other messages
\* processed so far are, and total_emails counts the whole batch.
C4_FailedExcluded ==
    /\ Len(results) = (idx - 1) - Cardinality(failed)
    /\ statistics.total_emails = Len(emails)

\* C5: analyze_cancellation_requests never lets an exception out.
C5_NeverRaises == pc # "raised"

\* K / N * 100 for every N in 1..MaxBatch and K in 0..N: row N, column K + 1
StatedRates ==
    Tuple([n \in 1..MaxBatch |->
        Tuple([k \in 1..(n + 1) |-> FMul[Float[k - 1, n], Rate100]])])

\* C6: in the returned statistics total_emails is the batch size N,
\* cancellation_count the number K of analyses classified as cancellations,
\* and cancellation_rate is K / N * 100, or 0 for the empty batch.
C6_Aggregation ==
    pc = "done" =>
        /\ report[1].statistics.total_emails = Len(emails)
        /\ report[1].statistics.cancellation_count = CancellationsIn(results)
        /\ Len(emails) > 0 =>
              report[1].statistics.cancellation_rate =
                  StatedRates[Len(emails)][CancellationsIn(results) + 1]
        /\ Len(emails) = 0 =>
              /\ report[1].statistics.cancellation_count = 0
              /\ report[1].statistics.cancellation_rate = Zero

\* C6 happens: a returned report on two messages, one of them a cancellation.
C6_Witness ==
    /\ pc = "done"
    /\ Len(emails) = 2
    /\ CancellationsIn(results) = 1
    /\ report[1].statistics.cancellation_rate = Rate50

\* C7: during the loop and in the report, cancellation_count,
\* amazon_related and high_priority are between 0 and total_emails, and
\* the cancellation_rate of the report is in [0, 100].
C7_CountsBounded ==
    /\ pc \in {"loop", "done"} =>
          /\ statistics.cancellation_count \in 0..statistics.total_emails
          /\ statistics.amazon_related \in 0..statistics.total_emails
          /\ statistics.high_priority \in 0..statistics.total_emails
    /\ pc = "done" =>
          /\ report[1].statistics.cancellation_count \in 0..report[1].statistics.total_emails
          /\ report[1].statistics.amazon_related \in 0..report[1].statistics.total_emails
          /\ report[1].statistics.high_priority \in 0..report[1].statistics.total_emails
          /\ FLeq[Zero, report[1].statistics.cancellation_rate]
          /\ FLeq[report[1].statistics.cancellation_rate, Rate100]

\* C7 happens: a report on a batch with a failed message in which the
\* counts reach total_emails.
C7_Witness ==
    /\ pc = "done"
    /\ failed # {}
    /\ report[1].statistics.total_emails = 2
    /\ report[1].statistics.cancellation_count = 2
    /\ report[1].statistics.high_priority = 2
    /\ report[1].statistics.cancellation_rate = Rate100

\* C8: the list of _extract_order_numbers has no duplicates, and each of
\* its strings has at least 8 characters and at least one digit.
C8_OrderNumbersValid ==
    \A i \in ResultIndices :
        /\ NoDuplicates(results[i].order_numbers)
        /\ \A k \in 1..Len(results[i].order_numbers) :
              /\ Len(results[i].order_numbers[k]) >= 8
              /\ HasDigit(results[i].order_numbers[k])

\* C8 happens: an extraction from a text in which the patterns capture the
\* same identifier more than once and also a candidate without a digit.
C8_Witness ==
    \E i \in ResultIndices :
        /\ Len(results[i].order_numbers) > 0
        /\ \E candidates \in {OrderCandidates(self, FullText(Deref(results[i].email_data)))} :
              /\ ~NoDuplicates(candidates)
              /\ \E k \in 1..Len(candidates) : ~HasDigit(candidates[k])

StatisticsAfter(rs, n) ==
    LET S[k \in 0..Len(rs)] ==
            IF k = 0 THEN [NewStatistics(<<>>) EXCEPT !.total_emails = n]
            ELSE Bind(S[k - 1], LAMBDA s : UpdateStatistics(s, rs[k]).stats)
    IN  S[Len(rs)]

Orderings(n) == {p \in [1..n -> 1..n] : \A a, b \in 1..n : a # b => p[a] # p[b]}

Permuted(xs, p) == [k \in 1..Len(xs) |-> xs[p[k]]]

SameCounts(s, t) ==
    /\ s.total_emails = t.total_emails
    /\ s.cancellation_count = t.cancellation_count
    /\ s.amazon_related = t.amazon_related
    /\ s.high_priority = t.high_priority
    /\ Range(s.keyword_distribution) = Range(t.keyword_distribution)
    /\ Range(s.sender_distribution) = Range(t.sender_distribution)
    /\ Range(s.date_distribution) = Range(t.date_distribution)

\* the for loop is through; nothing after it assigns to statistics
LoopEnded == pc = "loop" /\ idx > Len(emails)

\* C11: the statistics of a batch are those of every permutation of it:
\* the four counts and every count of the three distributions are equal.
C11_OrderIndependent ==
    LoopEnded =>
        \A p \in Orderings(Len(results)) :
            SameCounts(StatisticsAfter(Permuted(results, p), Len(emails)), statistics)

\* C11 happens: a batch of two messages that share a keyword, whose
\* reversal fills the keyword distribution in another order.
C11_Witness ==
    /\ LoopEnded
    /\ Len(results) = 2
    /\ \E k \in 1..Len(statistics.keyword_distribution) :
          statistics.keyword_distribution[k].count = 2
    /\ StatisticsAfter(<<results[2], results[1]>>, 2).keyword_distribution
          # statistics.keyword_distribution

AllKeywords == UNION {Range(LoadKeywords[Categories[c]]) : c \in 1..Len(Categories)}

\* for every record: no keyword of any category occurs in its subject or body
KeywordFree ==
    Tuple([ref \in MessageRefs |->
              \A keyword \in AllKeywords : ~Contains[FullText(Deref(ref)), keyword]])

\* C12: a message in which no keyword occurs has no matches, score 0, is
\* no cancellation and has priority niedrig, whatever its sender, order
\* numbers and date.
C12_NoKeywordNoScore ==
    \A i \in ResultIndices :
        KeywordFree[results[i].email_data] =>
            /\ results[i].matches = <<>>
            /\ results[i].confidence_score = Zero
            /\ ~results[i].is_cancellation
            /\ results[i].priority_level = "niedrig"

\* C12 happens: a recent keyword-free message from an Amazon sender with an
\* order number has been analysed.
C12_Witness ==
    \E i \in ResultIndices :
        /\ KeywordFree[results[i].email_data]
        /\ results[i].amazon_related
        /\ results[i].order_numbers # <<>>
        /\ IsRecent(Deref(results[i].email_data), analysed_at[i])
        /\ results[i].confidence_score = Zero

\* for every record: a high-priority keyword occurs in its subject or body
ContainsPriorityKeyword ==
    Tuple([ref \in MessageRefs |->
              \E keyword \in Range(HIGH_PRIORITY_KEYWORDS) :
                  Contains[FullText(Deref(ref)), keyword]])

HighResults == {i \in ResultIndices : results[i].priority_level = "hoch"}

\* the analysed messages with a high-priority keyword and a score >= 0.8
UrgentConfident ==
    {i \in ResultIndices :
        /\ ContainsPriorityKeyword[results[i].email_data]
        /\ FGeq[results[i].confidence_score, Score080]}

\* C13: high_priority is the number of analysed messages with priority
\* hoch, and the h messages with a high-priority keyword and a score >= 0.8
\* are counted in it and in cancellation_count: both are >= h.
C13_HighPriorityCount ==
    /\ pc \in {"loop", "done"} =>
          /\ statistics.high_priority = Cardinality(HighResults)
          /\ UrgentConfident \subseteq HighResults
          /\ \A i \in UrgentConfident : results[i].is_cancellation
          /\ statistics.high_priority >= Cardinality(UrgentConfident)
          /\ statistics.cancellation_count >= Cardinality(UrgentConfident)
    /\ pc = "done" =>
          /\ report[1].statistics.high_priority = Cardinality(HighResults)
          /\ report[1].statistics.cancellation_count >= Cardinality(UrgentConfident)

\* C13 happens: a report on two messages of priority hoch, one of them with
\* a high-priority keyword and a score >= 0.8.
C13_Witness ==
    /\ pc = "done"
    /\ Cardinality(UrgentConfident) = 1
    /\ report[1].statistics.high_priority = 2
    /\ report[1].statistics.cancellation_count = 2

PrimaryKeywords == Range(CANCELLATION_KEYWORDS_DE) \cup Range(CANCELLATION_KEYWORDS_EN)

\* keyword stands in s at index i as a word of its own
StandsAsWord(s, keyword, i) ==
    OccursAt(s, keyword, i) /\ ~WordAt(s, i - 1) /\ ~WordAt(s, i + Len(keyword))

\* a number ddd-ddddddd-ddddddd stands in s at index i, not inside a longer
\* run of digits and hyphens
StandsAsOrderNumber(s, i) ==
    /\ AmazonOrderAt(s, i)
    /\ \A j \in {i - 1, i + AmazonOrderLen} :
          j \in 1..Len(s) => Char(s, j) \notin (DigitChars \cup {"-"})

\* for every record: the order numbers in its subject, when the subject
\* also holds a primary keyword, the sender is a service desk and the body
\* is short; the empty set otherwise
ServiceDeskOrders ==
    Tuple([ref \in MessageRefs |->
        Bind(Deref(ref),
        LAMBDA e :
            IF IsNone(e.subject) \/ IsNone(e.body) \/ IsNone(e.sender) THEN {}
            ELSE Bind(Lower[Val(e.subject)],
                 LAMBDA s :
                     IF /\ \E keyword \in PrimaryKeywords :
                              \E i \in 1..Len(s) : StandsAsWord(s, keyword, i)
                        /\ \E p \in SenderPatterns : Contains[Lower[Val(e.sender)], p]
                        /\ Len(Val(e.body)) < ShortBodyLimit
                     THEN {SubSeq(s, i, i + AmazonOrderLen - 1) :
                             i \in {j \in 1..Len(s) : StandsAsOrderNumber(s, j)}}
                     ELSE {}))])

\* C14: a message from a service-desk sender with a short body, whose
\* subject holds a primary cancellation keyword and an order number
\* ddd-ddddddd-ddddddd, is a cancellation and that number is extracted.
C14_ServiceDeskScenario ==
    \A i \in ResultIndices :
        \A number \in ServiceDeskOrders[results[i].email_data] :
            /\ results[i].is_cancellation
            /\ number \in Range(results[i].order_numbers)

\* C14 happens: the message 'Kunde möchte Bestellung 123-4567890-1234567
\* stornieren.' from customer-service@vendor.example has been analysed.
C14_Witness ==
    \E i \in ResultIndices :
        /\ ServiceDeskOrders[results[i].email_data] = {"123-4567890-1234567"}
        /\ results[i].is_cancellation
        /\ results[i].order_numbers = <<"123-4567890-1234567">>

\* the sum of the counts of a Counter
SumCounts(counter) ==
    LET S[k \in 0..Len(counter)] == IF k = 0 THEN 0 ELSE S[k - 1] + counter[k].count
    IN  S[Len(counter)]

CounterKeys(counter) == {counter[k].key : k \in 1..Len(counter)}

\* the results that are cancellations and carry a timestamp
DatedCancellations ==
    {i \in ResultIndices :
        results[i].is_cancellation /\ Deref(results[i].email_data).raw_date.kind = "datetime"}

\* C15: analyze_trends counts the cancellations that carry a timestamp and
\* no other result: the daily, weekday and hourly counts each sum to their
\* number and the days are theirs; without any it returns the empty dict.
C15_TrendsCountQualifying ==
    trends # <<>> =>
        IF DatedCancellations = {} THEN trends[1] = EmptyDict
        ELSE /\ ~trends[1].empty
             /\ SumCounts(trends[1].daily_trend) = Cardinality(DatedCancellations)
             /\ SumCounts(trends[1].weekday_pattern) = Cardinality(DatedCancellations)
             /\ SumCounts(trends[1].hourly_pattern) = Cardinality(DatedCancellations)
             /\ CounterKeys(trends[1].daily_trend) =
                   {Deref(results[i].email_data).raw_date.t \div HoursPerDay : i \in DatedCancellations}

\* C15 happens: trends over a cancellation without a timestamp, which is
\* skipped, and a dated one, which is counted.
C15_Witness ==
    /\ trends # <<>>
    /\ Cardinality(DatedCancellations) = 1
    /\ \E i \in ResultIndices :
          results[i].is_cancellation /\ Deref(results[i].email_data).raw_date.kind = "none"
    /\ SumCounts(trends[1].daily_trend) = 1


\* the index of x in the sequence xs
IndexOf(xs, x) == CHOOSE k \in 1..Len(xs) : xs[k] = x

\* m was discovered before n: by category, then by keyword within the
\* category, then by position in the text
DiscoveredBefore(m, n) ==
    Bind(<<IndexOf(Categories, m.category), IndexOf(Categories, n.category)>>,
    LAMBDA c :
        \/ c[1] < c[2]
        \/ /\ c[1] = c[2]
           /\ Bind(<<IndexOf(LoadKeywords[m.category], m.keyword),
                     IndexOf(LoadKeywords[m.category], n.keyword)>>,
              LAMBDA k :
                  \/ k[1] < k[2]
                  \/ k[1] = k[2] /\ m.position < n.position))

\* C16: the match list is in non-increasing order of confidence, and
\* matches of equal confidence are in their order of discovery.
C16_SortedStable ==
    \A i \in ResultIndices :
        \A a, b \in 1..Len(results[i].matches) :
            a < b =>
                /\ FGeq[results[i].matches[a].confidence, results[i].matches[b].confidence]
                /\ results[i].matches[a].confidence = results[i].matches[b].confidence
                      => DiscoveredBefore(results[i].matches[a], results[i].matches[b])

\* C16 happens: a list in which a match of higher confidence found later
\* comes first, and two matches of equal confidence stand in keyword order
\* against their positions in the text.
C16_Witness ==
    \E i \in ResultIndices :
        \E a, b, c \in 1..Len(results[i].matches) :
            /\ a < b /\ b < c
            /\ FLt[results[i].matches[b].confidence, results[i].matches[a].confidence]
            /\ DiscoveredBefore(results[i].matches[b], results[i].matches[a])
            /\ results[i].matches[b].confidence = results[i].matches[c].confidence
            /\ results[i].matches[b].position > results[i].matches[c].position


\* t tenths as a number, for t = 0..10
TenthsTable == Tuple([t \in 1..11 |-> Float[t - 1, 10]])
Tenths(t) == TenthsTable[t + 1]

\* for every record: tenths of bonus for a short body and for the sender
RecordBonusTenths ==
    Tuple([ref \in MessageRefs |->
        Bind(Deref(ref),
        LAMBDA e :
            IF IsNone(e.body) \/ IsNone(e.sender) THEN 0
            ELSE BoolInt(Len(Val(e.body)) < 500)
                 + BoolInt(\E p \in {"customer", "service", "support"} :
                              Contains[Lower[Val(e.sender)], p]))])

\* tenths of the base confidence of a category
BaseTenths(category) ==
    IF category \in {"primary_de", "primary_en"} THEN 8
    ELSE IF category = "amazon" THEN 3
    ELSE IF category = "priority" THEN 9
    ELSE 5

\* the confidence C17 states for the match m of the record ref
StatedMatchConfidence(m, ref) ==
    Tenths(Min(10, BaseTenths(m.category)
                   + 2 * BoolInt(m.position < Len(Val(Deref(ref).subject)))
                   + RecordBonusTenths[ref]))

\* C17: the confidence of a match is min(1.0, base + 0.2 in the subject
\* + 0.1 for a body under 500 characters + 0.1 for a customer/service/
\* support sender) with base 0.8, 0.3, 0.9 or 0.5 by category, and so
\* lies in [0.3, 1.0].
C17_MatchConfidence ==
    \A i \in ResultIndices :
        \A k \in 1..Len(results[i].matches) :
            /\ results[i].matches[k].confidence =
                  StatedMatchConfidence(results[i].matches[k], results[i].email_data)
            /\ FLeq[Tenths(3), results[i].matches[k].confidence]
            /\ FLeq[results[i].matches[k].confidence, Tenths(10)]

\* C17 happens: a subject match of a service-desk message capped at 1.0,
\* beside a vendor match of 0.3 and a high-priority match of 0.9 without
\* any bonus.
C17_Witness ==
    /\ \E i \in ResultIndices : \E k \in 1..Len(results[i].matches) :
          /\ results[i].matches[k].category = "primary_de"
          /\ results[i].matches[k].position < Len(Val(Deref(results[i].email_data).subject))
          /\ RecordBonusTenths[results[i].email_data] = 2
          /\ results[i].matches[k].confidence = One
    /\ \E i \in ResultIndices : \E k, l \in 1..Len(results[i].matches) :
          /\ results[i].matches[k].category = "amazon"
          /\ results[i].matches[k].confidence = Tenths(3)
          /\ results[i].matches[l].category = "priority"
          /\ results[i].matches[l].confidence = Tenths(9)


\* the matches that enter the base score
TopOf(matches) == SubSeq(matches, 1, Min(5, Len(matches)))

\* C18: the score before bonuses is the rank-weighted average of the first
\* five matches only, so it does not change when the later matches are
\* dropped, and it lies between the smallest and the largest confidence of
\* those matches.
C18_BaseScoreBetween ==
    \A i \in ResultIndices :
        results[i].matches # <<>> =>
            \E base_score \in {BaseScore(results[i].matches)} :
                /\ base_score = BaseScore(TopOf(results[i].matches))
                /\ \E k \in 1..Len(TopOf(results[i].matches)) :
                      FLeq[results[i].matches[k].confidence, base_score]
                /\ \E k \in 1..Len(TopOf(results[i].matches)) :
                      FLeq[base_score, results[i].matches[k].confidence]

DistinctKeywords(matches) == Cardinality({matches[k].keyword : k \in 1..Len(matches)})

\* the sum of the bonuses stated for the analysis r, recent or not
StatedBonus(r, recent) ==
    Bind(IF DistinctKeywords(r.matches) > 2 THEN Float[10, 100] ELSE Zero,
    LAMBDA b1 :
    Bind(IF r.amazon_related THEN FAdd[b1, Float[15, 100]] ELSE b1,
    LAMBDA b2 :
    Bind(IF r.order_numbers # <<>> THEN FAdd[b2, Float[10, 100]] ELSE b2,
    LAMBDA b3 : IF recent THEN FAdd[b3, Float[5, 100]] ELSE b3)))

\* for every record: the score before bonuses of its analysis by the
\* analyzer as constructed
BaseScores ==
    Tuple([ref \in MessageRefs |->
        Bind(AnalysisTable[ref][1],
        LAMBDA a : IF IsRaised(a) THEN Zero ELSE BaseScore(a.value.matches))])

\* the score stated for the analysis a of the record ref, recent or not
StatedScore(ref, a, recent) ==
    IF IsRaised(a) THEN Zero
    ELSE IF a.value.matches = <<>> THEN Zero
    ELSE FMin[One, FAdd[BaseScores[ref], StatedBonus(a.value, recent)]]

\* the times of the clock
Times == Tuple([t \in 1..(MaxTicks + 1) |-> Now0 + (t - 1) * TickHours])

\* for every record and every time of the clock: the stated score, the
\* message being recent when the difference of the timestamps has at most
\* 7 days
StatedScores ==
    Tuple([ref \in MessageRefs |->
        Tuple([t \in 1..Len(Times) |->
            StatedScore(ref, AnalysisTable[ref][t], IsRecent(Deref(ref), Times[t]))])])

\* C19: a message with a match scores min(1.0, base + 0.10 for more than
\* two distinct keywords among all its matches + 0.15 if vendor-related
\* + 0.10 if an identifier is extracted + 0.05 if recent).
C19_FinalScore ==
    \A i \in ResultIndices :
        /\ analyses[results[i].email_data][TimeIndex(analysed_at[i])] = Return(results[i])
        /\ results[i].matches # <<>> =>
              results[i].confidence_score
                  = StatedScores[results[i].email_data][TimeIndex(analysed_at[i])]

\* C19 happens: a message with exactly two distinct keywords and no
\* distinct-keyword bonus, beside one whose top five matches hold two
\* distinct keywords and all its matches four, which has the bonus.
C19_Witness ==
    /\ \E i \in ResultIndices :
          /\ DistinctKeywords(results[i].matches) = 2
          /\ IsRecent(Deref(results[i].email_data), analysed_at[i])
          /\ ~results[i].amazon_related
          /\ FLt[results[i].confidence_score, One]
    /\ \E i \in ResultIndices :
          /\ DistinctKeywords(TopOf(results[i].matches)) = 2
          /\ DistinctKeywords(results[i].matches) = 4
          /\ FLt[results[i].confidence_score, One]


\* the timestamp of the record lies within 7 days of now, before or after
WithinWeek(ref, now) ==
    Bind(NormalizeDatetime(Deref(ref).raw_date, now).t - now,
    LAMBDA hours : hours <= 7 * HoursPerDay /\ 0 - hours <= 7 * HoursPerDay)

\* for every record and every time of the clock: the stated score, the
\* message being recent when its timestamp lies within 7 days of now
WithinWeekScores ==
    Tuple([ref \in MessageRefs |->
        Tuple([t \in 1..Len(Times) |->
            StatedScore(ref, AnalysisTable[ref][t], WithinWeek(ref, Times[t]))])])

\* C20: the recency bonus of 0.05 is part of the score if and only if the
\* timestamp of the message is within 7 days of the current time, so not
\* for a message 7 days and 12 hours old nor for one dated more than 7
\* days ahead.
C20_RecencyWithinWeek ==
    \A i \in ResultIndices :
        results[i].matches # <<>> =>
            results[i].confidence_score
                = WithinWeekScores[results[i].email_data][TimeIndex(analysed_at[i])]


\* for every record and every time of the clock: the score stated for a
\* message whose timestamp is taken to be the current time
ScoresAsNow ==
    Tuple([ref \in MessageRefs |->
        Tuple([t \in 1..Len(Times) |-> StatedScore(ref, AnalysisTable[ref][t], TRUE)])])

Undated(i) == Deref(results[i].email_data).raw_date.kind # "datetime"

\* C21: a message with a match whose timestamp is missing or no datetime is
\* scored as a message of the current time, with the recency bonus, and the
\* scorer has logged a warning for it.
C21_TimestampFallback ==
    \A i \in ResultIndices :
        Undated(i) /\ results[i].matches # <<>> =>
            /\ results[i].confidence_score
                  = ScoresAsNow[results[i].email_data][TimeIndex(analysed_at[i])]
            /\ i \in warned

\* the matches of all results, as pairs <<index of the result, index of the
\* match>>
AllMatches ==
    UNION {{<<i, j>> : j \in 1..Len(results[i].matches)} : i \in ResultIndices}

\* C22: the keyword distribution holds, for every keyword, the number of
\* matches of all results that carry it, so that its counts sum to the total
\* number of matches and a keyword matched k times in one message counts k.
C22_KeywordPerMatch ==
    /\ SumCounts(statistics.keyword_distribution) = Cardinality(AllMatches)
    /\ \A m \in AllMatches :
          results[m[1]].matches[m[2]].keyword \in CounterKeys(statistics.keyword_distribution)
    /\ \A k \in 1..Len(statistics.keyword_distribution) :
          statistics.keyword_distribution[k].count =
              Cardinality({m \in AllMatches :
                  results[m[1]].matches[m[2]].keyword = statistics.keyword_distribution[k].key})

\* C22 happens: the report on the one message in which 'order' is matched
\* five times counts 'order' five times.
C22_Witness ==
    /\ pc = "done"
    /\ Len(results) = 1
    /\ Len(results[1].matches) = 5
    /\ statistics.keyword_distribution = <<[key |-> "order", count |-> 5]>>

\* the endings of the string s, the empty one included
Endings(s) == {SubSeq(s, k, Len(s)) : k \in 1..(Len(s) + 1)}

\* d is what follows '@' in the address: the address ends with '@' and d,
\* and d holds no '@'
FollowsAt(d, address) ==
    /\ "@" \notin CharsOf(d)
    /\ ("@" \o d) \in Endings(address)

\* for every record whose sender is a string: the part of it after '@', or
\* 'unknown' without '@'; for the others the empty string
StatedDomains ==
    Tuple([ref \in MessageRefs |->
        Bind(Deref(ref).sender,
        LAMBDA sender :
            IF IsNone(sender) THEN ""
            ELSE IF "@" \in CharsOf(Val(sender))
                 THEN CHOOSE d \in Endings(Val(sender)) : FollowsAt(d, Val(sender))
                 ELSE "unknown")])

\* the results whose sender is a string
WithSender == {i \in ResultIndices : ~IsNone(Deref(results[i].email_data).sender)}

NormalizedDay(i) ==
    DayKey(NormalizeDatetime(Deref(results[i].email_data).raw_date, analysed_at[i]))

\* C24: every result of analysis_results is counted once in the sender
\* distribution and once in the date distribution, there under the calendar
\* day of its normalized timestamp.
C24_AggregatedOnce ==
    /\ SumCounts(statistics.sender_distribution) = Len(results)
    /\ SumCounts(statistics.date_distribution) = Len(results)
    /\ \A k \in 1..Len(statistics.date_distribution) :
          statistics.date_distribution[k].count =
              Cardinality({i \in ResultIndices :
                  NormalizedDay(i) = statistics.date_distribution[k].key})

\* the entries of a mapping are listed by count, largest first
ByCountDescending(counter) ==
    \A k \in 1..(Len(counter) - 1) : counter[k].count >= counter[k + 1].count

\* the weekday and the hour of the normalized timestamp of results[i]
WeekdayOfResult(i) == Weekday(NormalizeDatetime(Deref(results[i].email_data).raw_date, clock))
HourOfResult(i) == HourOf(NormalizeDatetime(Deref(results[i].email_data).raw_date, clock))

\* the qualifying results of the weekday, and of the hour, of results[i]
OnWeekdayOf(i) == {j \in DatedCancellations : WeekdayOfResult(j) = WeekdayOfResult(i)}
InHourOf(i) == {j \in DatedCancellations : HourOfResult(j) = HourOfResult(i)}

\* C25: in a non-empty result of analyze_trends the three mappings are
\* listed by count, largest first, and the peak weekday and the peak hour are
\* the entries of the highest count, the first one met in the input among
\* several of the highest count.
C25_TrendsSortedPeaks ==
    (trends # <<>> /\ ~trends[1].empty) =>
        /\ ByCountDescending(trends[1].daily_trend)
        /\ ByCountDescending(trends[1].weekday_pattern)
        /\ ByCountDescending(trends[1].hourly_pattern)
        /\ trends[1].peak_day \in Range(trends[1].weekday_pattern)
        /\ trends[1].peak_hour \in Range(trends[1].hourly_pattern)
        /\ \E i \in DatedCancellations :
              /\ \A j \in DatedCancellations :
                    /\ Cardinality(OnWeekdayOf(j)) <= Cardinality(OnWeekdayOf(i))
                    /\ j < i => Cardinality(OnWeekdayOf(j)) < Cardinality(OnWeekdayOf(i))
              /\ trends[1].peak_day =
                    [key |-> WeekdayOfResult(i), count |-> Cardinality(OnWeekdayOf(i))]
        /\ \E i \in DatedCancellations :
              /\ \A j \in DatedCancellations :
                    /\ Cardinality(InHourOf(j)) <= Cardinality(InHourOf(i))
                    /\ j < i => Cardinality(InHourOf(j)) < Cardinality(InHourOf(i))
              /\ trends[1].peak_hour =
                    [key |-> HourOfResult(i), count |-> Cardinality(InHourOf(i))]

\* C25 happens: analyze_trends on three cancellations, the first of one day
\* and the other two of another, lists the weekday of the two first.
C25_Witness ==
    /\ trends # <<>>
    /\ Len(results) = 3
    /\ WeekdayOfResult(2) = WeekdayOfResult(3)
    /\ WeekdayOfResult(1) # WeekdayOfResult(2)
    /\ trends[1].weekday_pattern =
          <<[key |-> WeekdayOfResult(2), count |-> 2], [key |-> WeekdayOfResult(1), count |-> 1]>>
    /\ trends[1].peak_day.key = WeekdayOfResult(2)

\* the positions of the batch gone through whose analysis returned
AnalysedPositions == {p \in 1..(idx - 1) : ~IsRaised(analyses[emails[p]][1])}

\* the position of the batch that results[i] was computed at
PositionOf(i) ==
    CHOOSE p \in AnalysedPositions : Cardinality({q \in AnalysedPositions : q <= p}) = i

C27_CancellationIffMatch ==
    \A i \in ResultIndices : results[i].is_cancellation <=> results[i].matches # <<>>

\* C28: in the returned report cancellation_emails has as many entries as
\* statistics.cancellation_count says and as analysis_results has
\* cancellations.
C28_CancellationEmailsCount ==
    pc = "done" =>
        /\ Len(cancellation_emails) = report[1].statistics.cancellation_count
        /\ Len(cancellation_emails) = CancellationsIn(results)

(***************************************************************************)
(* The Gmail client.                                                       *)
(***************************************************************************)
Disconnected ==
    IsNone(client.connection) /\ IsNone(client.email) /\ ~client.is_authenticated

MostRecent(ids, n) == SubSeq(ids, Len(ids) - Min(n, Len(ids)) + 1, Len(ids))

\* C30: for every max_emails >= 0 and every list of ids the search returns,
\* search_emails fetches the last max_emails ids and returns their records
\* in the order of the search, without those whose fetch failed: at most
\* max_emails records, and none for max_emails = 0.
C30_AtMostMaxEmails ==
    call.method = "search_emails" /\ call.raised = ""
        => /\ call.fetched = MostRecent(call.found, call.max_emails)
           /\ call.returned = SelectSeq(MostRecent(call.found, call.max_emails),
                                        LAMBDA id : id \notin call.lost)
           /\ Len(call.returned) <= call.max_emails
====
